---------------------------- MODULE Spec2Model ----------------------------
(***************************************************************************)
(* pushscript-v02: the dependency-conflict cascade                         *)
(* (detectDependencyConflicts, src/pushscript-v02/dependency.js) and the   *)
(* part of commit() that consumes its result (src/unnamed/part_003).       *)
(*                                                                         *)
(* Strings the code computes on (paths, version specifiers, output lines,  *)
(* problem messages, prompt answers) are sequences of one-character        *)
(* strings, so endsWith, includes, replace, toLowerCase and template       *)
(* concatenation are computed as the code computes them.  Shell commands   *)
(* and log tags, which the code only passes on, are plain strings.         *)
(*                                                                         *)
(* The text written by a subprocess or read from a file is a record        *)
(* [lines, json]: lines is the raw text split at newlines, json is <<>>    *)
(* when JSON.parse throws on the text and <<v>> when it returns v.         *)
(***************************************************************************)
EXTENDS Integers, Sequences, FiniteSets, TLC

VARIABLES
    pc,              \* where commit() / detectDependencyConflicts stands
    changedFiles,    \* the ChangeSet handed to detectDependencyConflicts
    lockfiles,       \* which of pnpm-lock.yaml / yarn.lock exist on disk
    packageManager,  \* local of detectDependencyConflicts
    probes,          \* the probes entered so far, in order
    execLog,         \* every command handed to execSync, in order
    fsLog,           \* every fs.existsSync / fs.readFileSync target, in order
    warnLog,         \* the logWarning calls of the cascade, in order
    lsOutput,        \* what the list command returned   } locals, each kept
    checkOutput,     \* what the dry run returned        } until the next probe
    fileReads,       \* <<path, content>> of each manifest read } is entered:
    dupeOutput,      \* what the dedupe dry run returned } no later code reads it
    conflictInfo,    \* the value detectDependencyConflicts returns
    escaped,         \* TRUE when detectDependencyConflicts threw to commit()
    nodeModules,     \* "present" / "absent" once existsSync has looked
    llmAnalysis,     \* what analyzeDependencyConflictsWithLLM returned
    answer,          \* <<a>> once the user answered a at the prompt
    finalCommitMessage, \* local of commit()
    outcome,         \* how commit() ended
    invocation,      \* 1 or 2: which call of detectDependencyConflicts runs
    first,           \* what the first of two calls was given and returned
    advisory,        \* what the advisory step of commit() sent and printed
    analysis,        \* the text the provider's response handler hands back
    porcelain,       \* the lines `git status --porcelain` prints now
    stagedFiles,     \* the file list of each checkSensitiveFiles call so far
    changes,         \* local of commit(): what getGitStatus returned
    message,         \* the message argument of commit() / push()
    drafting,        \* what commit() was given and got while making its message
    branch,          \* local of push()
    branchStatus,    \* what push() read about the branch
    pushAnswer,      \* <<a>> once the user answered a to confirmPush
    pushing          \* where push() stands, "idle" when commit() runs alone

vars == <<pc, changedFiles, lockfiles, packageManager, probes, execLog, fsLog,
          warnLog, lsOutput, checkOutput, fileReads, dupeOutput, conflictInfo,
          escaped, nodeModules, llmAnalysis, answer, finalCommitMessage, outcome,
          invocation, first, advisory, analysis, porcelain, stagedFiles, changes,
          message, drafting, branch, branchStatus, pushAnswer, pushing>>

\* what the callers and collaborators of the cascade hold
callerVars == <<analysis, stagedFiles, changes, message, branch, branchStatus,
                pushAnswer, pushing>>

\* what the tail of commit() changes outside the cascade
tailVars == <<porcelain, drafting>>

-----------------------------------------------------------------------------
(* Bounds of the model *)

\* the most problems of a record handed to the advisory step
MaxProblems == 7
\* the longest ChangeSet
MaxFiles == 2
\* the most (package, specifier) entries of a manifest, over all its sections
MaxEntries == 3
\* the longest text of a language model's response
MaxText == 5
\* the most staged changes of a commit
MaxChanges == 2

-----------------------------------------------------------------------------
(* String helpers *)

UpperChars == <<"A","B","C","D","E","F","G","H","I","J","K","L","M",
                "N","O","P","Q","R","S","T","U","V","W","X","Y","Z">>
LowerChars == <<"a","b","c","d","e","f","g","h","i","j","k","l","m",
                "n","o","p","q","r","s","t","u","v","w","x","y","z">>

LowerChar(c) ==
    IF \E i \in DOMAIN UpperChars : UpperChars[i] = c
    THEN LowerChars[CHOOSE i \in DOMAIN UpperChars : UpperChars[i] = c]
    ELSE c

\* String.prototype.toLowerCase
ToLowerCase(s) == [i \in DOMAIN s |-> LowerChar(s[i])]

\* String.prototype.endsWith
EndsWith(s, suffix) ==
    /\ Len(s) >= Len(suffix)
    /\ SubSeq(s, Len(s) - Len(suffix) + 1, Len(s)) = suffix

\* String.prototype.startsWith
StartsWith(s, prefix) ==
    /\ Len(s) >= Len(prefix)
    /\ SubSeq(s, 1, Len(prefix)) = prefix

\* String.prototype.includes
Includes(s, part) ==
    \E i \in 1..(Len(s) - Len(part) + 1) : SubSeq(s, i, i + Len(part) - 1) = part

Range(s) == {s[i] : i \in DOMAIN s}

\* Array.prototype.join
RECURSIVE Join(_, _)
Join(parts, sep) ==
    IF parts = <<>> THEN <<>>
    ELSE IF Len(parts) = 1 THEN parts[1]
    ELSE parts[1] \o sep \o Join(Tail(parts), sep)

\* Array.prototype.concat over an array of arrays
RECURSIVE Flatten(_)
Flatten(seqs) == IF seqs = <<>> THEN <<>> ELSE Head(seqs) \o Flatten(Tail(seqs))

-----------------------------------------------------------------------------
(* Paths *)

PackageJson     == <<"p","a","c","k","a","g","e",".","j","s","o","n">>
PackageLockJson == <<"p","a","c","k","a","g","e","-","l","o","c","k",".","j","s","o","n">>
YarnLock        == <<"y","a","r","n",".","l","o","c","k">>
PnpmLockYaml    == <<"p","n","p","m","-","l","o","c","k",".","y","a","m","l">>
NodeModules     == <<"n","o","d","e","_","m","o","d","u","l","e","s">>
SubPackageJson  == <<"a","/">> \o PackageJson            \* "a/package.json"
PackageJsonBak  == PackageJson \o <<".","b","a","k">>    \* "package.json.bak"

\* the paths a ChangeSet is drawn from
Paths == {PackageJson, SubPackageJson, YarnLock, PnpmLockYaml, PackageJsonBak}

IsInjective(s) == \A i, j \in DOMAIN s : s[i] = s[j] => i = j

\* git status lists a path once
ChangeSets ==
    UNION {{s \in [1..n -> Paths] : IsInjective(s)} : n \in 0..MaxFiles}

-----------------------------------------------------------------------------
(* Values shared by the probes *)

\* detectDependencyConflicts returning null
Null == [type |-> "null", problems |-> <<>>, file |-> <<>>]

\* the object literal { type, problems, file } the probes return
ConflictRecord(type, problems, file) ==
    [type |-> type, problems |-> problems, file |-> file]

\* what a probe does: return a record, fall through to the next probe, or
\* throw to the try block around all probes; warn lists its logWarning calls
ProbeReturn(rec)  == [k |-> "return", v |-> rec,  warn |-> <<>>]
ProbeNext(warn)   == [k |-> "next",   v |-> Null, warn |-> warn]
ProbeThrow        == [k |-> "throw",  v |-> Null, warn |-> <<>>]

\* execSync either throws or returns the captured stdout
ExecThrew     == [threw |-> TRUE,  out |-> [lines |-> <<>>, json |-> <<>>]]
ExecOk(text)  == [threw |-> FALSE, out |-> text]
NotRun        == [threw |-> FALSE, out |-> [lines |-> <<<<"-">>>>, json |-> <<>>]]

\* JSON values the probes look into
JNull == [t |-> "null"]

-----------------------------------------------------------------------------
(* Filtering and package-manager selection *)

\* as IsDependencyFile, with includes in place of endsWith
IsDependencyFileIncludes(file) ==
    \/ Includes(file, PackageJson)
    \/ Includes(file, PackageLockJson)
    \/ Includes(file, YarnLock)
    \/ Includes(file, PnpmLockYaml)

IsDependencyFile(file) ==
    \/ EndsWith(file, PackageJson)
    \/ EndsWith(file, PackageLockJson)
    \/ EndsWith(file, YarnLock)
    \/ EndsWith(file, PnpmLockYaml)

DependencyFiles(files) == SelectSeq(files, IsDependencyFile)

\* the existsSync calls the manager selection makes
SelectorProbes(pnpmExists) ==
    IF pnpmExists THEN <<PnpmLockYaml>> ELSE <<PnpmLockYaml, YarnLock>>

\* as SelectManager, with the two lockfile tests in the other order
SelectManagerYarnFirst(pnpmExists, yarnExists) ==
    IF yarnExists THEN "yarn"
    ELSE IF pnpmExists THEN "pnpm"
    ELSE "npm"

SelectManager(pnpmExists, yarnExists) ==
    IF pnpmExists THEN "pnpm"
    ELSE IF yarnExists THEN "yarn"
    ELSE "npm"

LsCommand(pm) ==
    IF pm = "pnpm" THEN "pnpm ls --json 2>/dev/null || true"
    ELSE IF pm = "yarn" THEN "yarn list --json 2>/dev/null || true"
    ELSE "npm ls --json 2>/dev/null || true"

CheckCommand(pm) ==
    IF pm = "pnpm" THEN "pnpm install --dry-run --json 2>/dev/null || true"
    ELSE IF pm = "yarn" THEN "yarn install --dry-run --json 2>/dev/null || true"
    ELSE "npm install --dry-run --json 2>/dev/null || true"

DupeCheckCommand(pm) ==
    IF pm = "pnpm" THEN "pnpm dedupe --dry-run 2>&1 || true"
    ELSE "npm dedupe --dry-run 2>&1 || true"

\* as OuterCatch, rethrowing after the warning
OuterCatchRethrow == [v |-> Null, escaped |-> TRUE,
                      warn |-> <<"Error checking for dependency conflicts">>]

\* the catch around all four probes
OuterCatch == [v |-> Null, escaped |-> FALSE,
               warn |-> <<"Error checking for dependency conflicts">>]

-----------------------------------------------------------------------------
(* Method 1: the list command's dependency tree *)

\* a node of the tree: [t |-> "object", name, version, invalid, problems,
\* dependencies], dependencies a sequence of <<key, node>> in key order
TreeNode(name, version, invalid, problems, dependencies) ==
    [t |-> "object", name |-> name, version |-> version, invalid |-> invalid,
     problems |-> problems, dependencies |-> dependencies]

\* as findInvalidDeps, looking at the root and its direct children only
findInvalidDepsShallow(obj) ==
    IF obj.t # "object" THEN <<>>
    ELSE (IF obj.invalid THEN <<obj.name \o <<"@">> \o obj.version>> ELSE <<>>)
         \o obj.problems
         \o Flatten([i \in DOMAIN obj.dependencies |->
                (IF obj.dependencies[i][2].invalid
                 THEN <<obj.dependencies[i][2].name \o <<"@">>
                        \o obj.dependencies[i][2].version>>
                 ELSE <<>>)
                \o obj.dependencies[i][2].problems])

RECURSIVE findInvalidDeps(_)
findInvalidDeps(obj) ==
    IF obj.t # "object" THEN <<>>
    ELSE (IF obj.invalid THEN <<obj.name \o <<"@">> \o obj.version>> ELSE <<>>)
         \o obj.problems
         \o Flatten([i \in DOMAIN obj.dependencies |->
                        findInvalidDeps(obj.dependencies[i][2])])

\* as TreeInspect, with the recursive walk tried before the top-level problems
TreeInspectWalkFirst(out, dependencyFiles) ==
    IF out.json = <<>> \/ out.json[1].t = "null"
    THEN ProbeNext(<<"Could not parse ls output">>)
    ELSE LET lsData == out.json[1]
             invalidDeps == findInvalidDeps(lsData)
         IN IF Len(invalidDeps) > 0
            THEN ProbeReturn(ConflictRecord("invalid_dependencies",
                                            invalidDeps, dependencyFiles[1]))
            ELSE IF Len(lsData.problems) > 0
            THEN ProbeReturn(ConflictRecord("npm_dependency_conflict",
                                            lsData.problems, dependencyFiles[1]))
            ELSE ProbeNext(<<>>)

\* as TreeInspect, without the try around JSON.parse
TreeInspectUnguarded(out, dependencyFiles) ==
    IF out.json = <<>> \/ out.json[1].t = "null"
    THEN ProbeThrow
    ELSE LET lsData == out.json[1] IN
         IF Len(lsData.problems) > 0
         THEN ProbeReturn(ConflictRecord("npm_dependency_conflict",
                                         lsData.problems, dependencyFiles[1]))
         ELSE LET invalidDeps == findInvalidDeps(lsData) IN
              IF Len(invalidDeps) > 0
              THEN ProbeReturn(ConflictRecord("invalid_dependencies",
                                              invalidDeps, dependencyFiles[1]))
              ELSE ProbeNext(<<>>)

\* lines 121-169: parse the list output and look for problems
TreeInspect(out, dependencyFiles) ==
    IF out.json = <<>>
    THEN ProbeNext(<<"Could not parse ls output">>)             \* JSON.parse throws
    ELSE LET lsData == out.json[1] IN
         IF lsData.t = "null"
         THEN ProbeNext(<<"Could not parse ls output">>)        \* TypeError on null
         ELSE IF Len(lsData.problems) > 0
         THEN ProbeReturn(ConflictRecord("npm_dependency_conflict",
                                         lsData.problems, dependencyFiles[1]))
         ELSE LET invalidDeps == findInvalidDeps(lsData) IN
              IF Len(invalidDeps) > 0
              THEN ProbeReturn(ConflictRecord("invalid_dependencies",
                                              invalidDeps, dependencyFiles[1]))
              ELSE ProbeNext(<<>>)

\* lines 109-169: execSync of the list command stands outside the inner try
TreeCheckResult(exec, dependencyFiles) ==
    IF exec.threw THEN ProbeThrow
    ELSE TreeInspect(exec.out, dependencyFiles)

-----------------------------------------------------------------------------
(* Method 2: the install dry run *)

ERESOLVE       == <<"E","R","E","S","O","L","V","E">>
PeerDepMissing == <<"p","e","e","r"," ","d","e","p"," ","m","i","s","s","i","n","g">>
Conflict       == <<"c","o","n","f","l","i","c","t">>

\* a warning is a string, an object with optional code and message, or null
JString(s)             == [t |-> "string", s |-> s]
JWarning(code, msg)    == [t |-> "object", code |-> code, message |-> msg]

\* JSON.stringify of a warning object
Stringify(w) ==
    <<"{">>
    \o Join((IF w.code = <<>> THEN <<>>
             ELSE <<<<"\"","c","o","d","e","\"",":","\"">> \o w.code[1] \o <<"\"">>>>)
            \o
            (IF w.message = <<>> THEN <<>>
             ELSE <<<<"\"","m","e","s","s","a","g","e","\"",":","\"">>
                    \o w.message[1] \o <<"\"">>>>),
            <<",">>)
    \o <<"}">>

\* lines 190-200: the filter predicate; reading .code of null throws
IsPeerDepsWarning(w) ==
    \/ (w.t = "object" /\ w.code = <<ERESOLVE>>)
    \/ (w.t = "string" /\ (Includes(w.s, PeerDepMissing) \/ Includes(w.s, Conflict)))
    \/ (/\ w.t = "object"
        /\ w.message # <<>>
        /\ w.message[1] # <<>>
        /\ (Includes(w.message[1], PeerDepMissing) \/ Includes(w.message[1], Conflict)))

\* line 205: the text shown for a selected warning
WarningText(w) ==
    IF w.t = "string" THEN w.s
    ELSE IF w.message # <<>> /\ w.message[1] # <<>> THEN w.message[1]
    ELSE Stringify(w)

\* line 212: /(ERESOLVE|peer dep missing|conflict|invalid|required|unmet)/gi
ErrorWords == <<
    <<"e","r","e","s","o","l","v","e">>,
    PeerDepMissing,
    Conflict,
    <<"i","n","v","a","l","i","d">>,
    <<"r","e","q","u","i","r","e","d">>,
    <<"u","n","m","e","t">> >>

WordAt(line, i, w) ==
    /\ i + Len(w) - 1 <= Len(line)
    /\ ToLowerCase(SubSeq(line, i, i + Len(w) - 1)) = w

\* RegExp.prototype.test of a global regex: the search starts at lastIndex
\* and leaves lastIndex at the end of the match, or at 0 when none is found
ErrorRegexTest(line, lastIndex) ==
    LET starts == {i \in (lastIndex + 1)..Len(line) :
                      \E k \in DOMAIN ErrorWords : WordAt(line, i, ErrorWords[k])}
    IN IF starts = {} THEN 0
       ELSE LET i == CHOOSE x \in starts : \A y \in starts : x <= y
                k == CHOOSE x \in DOMAIN ErrorWords :
                        /\ WordAt(line, i, ErrorWords[x])
                        /\ \A y \in DOMAIN ErrorWords :
                              WordAt(line, i, ErrorWords[y]) => x <= y
            IN i - 1 + Len(ErrorWords[k])

\* line 214: lines.filter(line => errorRegex.test(line)), one regex object
RECURSIVE FilterErrorLines(_, _)
FilterErrorLines(lines, lastIndex) ==
    IF lines = <<>> THEN <<>>
    ELSE LET e == ErrorRegexTest(Head(lines), lastIndex) IN
         (IF e > 0 THEN <<Head(lines)>> ELSE <<>>)
         \o FilterErrorLines(Tail(lines), e)

\* where one regex object stands after it has tested every line
RECURSIVE LastIndexAfter(_, _)
LastIndexAfter(lines, lastIndex) ==
    IF lines = <<>> THEN lastIndex
    ELSE LastIndexAfter(Tail(lines), ErrorRegexTest(Head(lines), lastIndex))

\* as TextFallback, with errorRegex one object of the module instead of one
\* made by each call: a second call finds lastIndex where the first left it
TextFallbackSharedRegex(out, dependencyFiles) ==
    LET errorLines ==
            FilterErrorLines(out.lines,
                IF invocation = 2 THEN LastIndexAfter(out.lines, 0) ELSE 0)
    IN IF Len(errorLines) > 0
       THEN ProbeReturn(ConflictRecord("dependency_warning", errorLines,
                                       dependencyFiles[1]))
       ELSE ProbeNext(<<>>)

\* lines 210-223: the catch of the JSON branch scans the text
TextFallback(out, dependencyFiles) ==
    LET errorLines == FilterErrorLines(out.lines, 0) IN
    IF Len(errorLines) > 0
    THEN ProbeReturn(ConflictRecord("dependency_warning", errorLines,
                                    dependencyFiles[1]))
    ELSE ProbeNext(<<>>)

\* lines 186-209: the JSON branch; TRUE when it throws into the catch
JsonBranchThrows(out) ==
    \/ out.json = <<>>
    \/ out.json[1].t = "null"
    \/ \E i \in DOMAIN out.json[1].warnings : out.json[1].warnings[i].t = "null"

DryRunInspect(out, dependencyFiles) ==
    IF JsonBranchThrows(out) THEN TextFallback(out, dependencyFiles)
    ELSE LET peerDepsWarnings == SelectSeq(out.json[1].warnings, IsPeerDepsWarning) IN
         IF Len(peerDepsWarnings) > 0
         THEN ProbeReturn(ConflictRecord("peer_dependency_conflict",
                  [i \in DOMAIN peerDepsWarnings |-> WarningText(peerDepsWarnings[i])],
                  dependencyFiles[1]))
         ELSE ProbeNext(<<>>)

\* lines 182-227: execSync of the dry run stands inside its own try
DryRunCheckResult(exec, dependencyFiles) ==
    IF exec.threw THEN ProbeNext(<<"Error running install --dry-run">>)
    ELSE DryRunInspect(exec.out, dependencyFiles)

-----------------------------------------------------------------------------
(* Method 4: the dedupe dry run *)

Duplicate == <<"d","u","p","l","i","c","a","t","e">>
Deduped   == <<"d","e","d","u","p","e","d">>
DedupeFallback ==
    <<"D","e","t","e","c","t","e","d"," ","d","u","p","l","i","c","a","t","e"," ",
      "p","a","c","k","a","g","e","s"," ","t","h","a","t"," ","c","o","u","l","d"," ",
      "b","e"," ","d","e","d","u","p","e","d">>

Digits   == {"0","1","2","3","4","5","6","7","8","9"}
\* [a-zA-Z0-9@/-]
NameChars == Range(LowerChars) \cup Range(UpperChars) \cup Digits \cup {"@", "/", "-"}

\* the index of the last character of the longest run of chars of cls that
\* starts at i (i - 1 when there is none)
RECURSIVE RunEnd(_, _, _)
RunEnd(s, i, cls) ==
    IF i <= Len(s) /\ s[i] \in cls THEN RunEnd(s, i + 1, cls) ELSE i - 1

\* \d+\.\d+\.\d+ at i: the index of its last character, 0 when it does not match
SemverEnd(s, i) ==
    LET a == RunEnd(s, i, Digits) IN
    IF a < i \/ a + 1 > Len(s) \/ s[a + 1] # "." THEN 0
    ELSE LET b == RunEnd(s, a + 2, Digits) IN
         IF b < a + 2 \/ b + 1 > Len(s) \/ s[b + 1] # "." THEN 0
         ELSE LET c == RunEnd(s, b + 2, Digits) IN
              IF c < b + 2 THEN 0 ELSE c

\* /([a-zA-Z0-9@/-]+)@(\d+\.\d+\.\d+)/ anchored at i: the ends j of group 1
\* for which the rest matches; the greedy group takes the largest
DupeGroupEnds(s, i) ==
    {j \in i..RunEnd(s, i, NameChars) :
        /\ j + 1 <= Len(s)
        /\ s[j + 1] = "@"
        /\ SemverEnd(s, j + 2) > 0}

\* line 304: [...dupeOutput.matchAll(dupeRegex)] mapped to `${m[1]}@${m[2]}`
RECURSIVE DupeMatches(_, _)
DupeMatches(s, from) ==
    LET starts == {i \in from..Len(s) : DupeGroupEnds(s, i) # {}} IN
    IF starts = {} THEN <<>>
    ELSE LET i == CHOOSE x \in starts : \A y \in starts : x <= y
             j == CHOOSE x \in DupeGroupEnds(s, i) :
                     \A y \in DupeGroupEnds(s, i) : y <= x
             e == SemverEnd(s, j + 2)
         IN <<SubSeq(s, i, j) \o <<"@">> \o SubSeq(s, j + 2, e)>>
            \o DupeMatches(s, e + 1)

\* as DedupInspect, without the test of line 306
DedupInspectUntested(out) ==
    LET dupeOutput_ == Join(out.lines, <<"\n">>) IN
    IF Includes(dupeOutput_, Duplicate) \/ Includes(dupeOutput_, Deduped)
    THEN ProbeReturn(ConflictRecord("duplicate_packages",
                                    DupeMatches(dupeOutput_, 1), NodeModules))
    ELSE ProbeNext(<<>>)

\* lines 299-314: the text of the dedupe dry run
DedupInspect(out) ==
    LET dupeOutput_ == Join(out.lines, <<"\n">>) IN
    IF Includes(dupeOutput_, Duplicate) \/ Includes(dupeOutput_, Deduped)
    THEN LET dupes == DupeMatches(dupeOutput_, 1) IN
         IF Len(dupes) > 0
         THEN ProbeReturn(ConflictRecord("duplicate_packages", dupes, NodeModules))
         ELSE ProbeNext(<<>>)
    ELSE ProbeNext(<<>>)

\* lines 296-319: skipped without node_modules; a throwing execSync is caught
DedupCheckResult(nodeModulesExists, exec) ==
    IF ~nodeModulesExists THEN ProbeNext(<<>>)
    ELSE IF exec.threw THEN ProbeNext(<<"Error checking for duplicates">>)
    ELSE DedupInspect(exec.out)

-----------------------------------------------------------------------------
(* Method 3: version conflicts inside a package.json *)

Dependencies         == <<"d","e","p","e","n","d","e","n","c","i","e","s">>
DevDependencies      == <<"d","e","v","D","e","p","e","n","d","e","n","c","i","e","s">>
PeerDependencies     == <<"p","e","e","r","D","e","p","e","n","d","e","n","c","i","e","s">>
OptionalDependencies == <<"o","p","t","i","o","n","a","l","D","e","p","e","n","d","e",
                          "n","c","i","e","s">>
HasMultipleVersions  == <<" ","h","a","s"," ","m","u","l","t","i","p","l","e"," ",
                          "v","e","r","s","i","o","n","s",":"," ">>

\* a parsed manifest: each section is <<>> when the key is absent and
\* <<entries>> when present, entries a sequence of <<package, specifier>>
\* in key order
PackageData(deps, devDeps, peerDeps, optionalDeps) ==
    [t |-> "object", dependencies |-> deps, devDependencies |-> devDeps,
     peerDependencies |-> peerDeps, optionalDependencies |-> optionalDeps]

\* as cleanVersion, stripping the caret only
IsNotCaret(c) == c # "^"
cleanVersionCaretOnly(version) == SelectSeq(version, IsNotCaret)

\* line 247: version.replace(/[\^~>=<]/g, '')
IsVersionChar(c) == c \notin {"^", "~", ">", "=", "<"}
cleanVersion(version) == SelectSeq(version, IsVersionChar)

\* as AddEntry, a diverging version replacing the entries recorded so far
AddEntryOverwrite(versionMap, pkg, version, type) ==
    LET entry == [type |-> type, version |-> SelectSeq(version, IsVersionChar)]
    IN IF \A i \in DOMAIN versionMap : versionMap[i].pkg # pkg
       THEN Append(versionMap, [pkg |-> pkg, versions |-> <<entry>>])
       ELSE [i \in DOMAIN versionMap |->
               IF /\ versionMap[i].pkg = pkg
                  /\ \E j \in DOMAIN versionMap[i].versions :
                        versionMap[i].versions[j].version # entry.version
               THEN [versionMap[i] EXCEPT !.versions = <<entry>>]
               ELSE versionMap[i]]

\* lines 249-259: one (pkg, version) pair of a section; the version map is a
\* sequence of [pkg, versions] in insertion order
AddEntry(versionMap, pkg, version, type) ==
    LET clean == cleanVersion(version)
        entry == [type |-> type, version |-> clean]
    IN IF \A i \in DOMAIN versionMap : versionMap[i].pkg # pkg
       THEN Append(versionMap, [pkg |-> pkg, versions |-> <<entry>>])
       ELSE [i \in DOMAIN versionMap |->
               IF /\ versionMap[i].pkg = pkg
                  /\ \E j \in DOMAIN versionMap[i].versions :
                        versionMap[i].versions[j].version # clean
               THEN [versionMap[i] EXCEPT !.versions = Append(@, entry)]
               ELSE versionMap[i]]

RECURSIVE AddEntries(_, _, _)
AddEntries(versionMap, entries, type) ==
    IF entries = <<>> THEN versionMap
    ELSE AddEntries(AddEntry(versionMap, Head(entries)[1], Head(entries)[2], type),
                    Tail(entries), type)

\* lines 242-261
addToVersionMap(versionMap, deps, type) ==
    IF deps = <<>> THEN versionMap
    ELSE AddEntries(versionMap, deps[1], type)

\* line 236: the manifest is looked at only with one of these two sections
HasCheckedSections(packageData) ==
    packageData.dependencies # <<>> \/ packageData.devDependencies # <<>>

\* lines 264-267
BuildVersionMap(packageData) ==
    addToVersionMap(
        addToVersionMap(
            addToVersionMap(
                addToVersionMap(<<>>, packageData.dependencies, Dependencies),
                packageData.devDependencies, DevDependencies),
            packageData.peerDependencies, PeerDependencies),
        packageData.optionalDependencies, OptionalDependencies)

IsConflicting(e) == Len(e.versions) > 1

\* lines 270-284: the problem strings of one manifest
VersionProblems(packageData) ==
    LET conflicts == SelectSeq(BuildVersionMap(packageData), IsConflicting) IN
    [i \in DOMAIN conflicts |->
        conflicts[i].pkg \o HasMultipleVersions
        \o Join([j \in DOMAIN conflicts[i].versions |->
                    conflicts[i].versions[j].type \o <<":"," ">>
                    \o conflicts[i].versions[j].version],
                <<","," ">>)]

\* what fs.readFileSync gives for a manifest: it throws, or it returns text
ReadThrew     == [threw |-> TRUE,  text |-> [lines |-> <<>>, json |-> <<>>]]
ReadOk(text)  == [threw |-> FALSE, text |-> text]

\* lines 232-291: the body of the loop for one file
ManifestInspectFile(content, file) ==
    IF content.threw \/ content.text.json = <<>> \/ content.text.json[1].t = "null"
    THEN ProbeNext(<<"Could not parse manifest">>)
    ELSE LET packageData == content.text.json[1] IN
         IF ~HasCheckedSections(packageData) THEN ProbeNext(<<>>)
         ELSE LET problems == VersionProblems(packageData) IN
              IF Len(problems) > 0
              THEN ProbeReturn(ConflictRecord("version_conflict", problems, file))
              ELSE ProbeNext(<<>>)

IsPackageJson(f) == EndsWith(f, PackageJson)

\* lines 231-292: the loop over the changed package.json files; disk maps a
\* path to what readFileSync gives for it.  The result carries the reads made.
RECURSIVE ManifestLoop(_, _, _, _)
ManifestLoop(files, disk, reads, warn) ==
    IF files = <<>> THEN [res |-> ProbeNext(warn), reads |-> reads]
    ELSE LET file == Head(files)
             r    == ManifestInspectFile(disk[file], file)
             seen == Append(reads, <<file, disk[file]>>)
         IN IF r.k = "next"
            THEN ManifestLoop(Tail(files), disk, seen, warn \o r.warn)
            ELSE [res |-> [r EXCEPT !.warn = warn], reads |-> seen]

ManifestCheckResult(dependencyFiles, disk) ==
    ManifestLoop(SelectSeq(dependencyFiles, IsPackageJson), disk, <<>>, <<>>)

-----------------------------------------------------------------------------
(* The environment: what the subprocesses print and the files hold *)

App  == <<"a","p","p">>
V100 == <<"1",".","0",".","0">>
V200 == <<"2",".","0",".","0">>

NotJsonText(lines) == [lines |-> lines, json |-> <<>>]
JsonText(lines, v) == [lines |-> lines, json |-> <<v>>]

\* outputs of the list command
LsTexts == {
    NotJsonText(<<<<"n","p","m"," ","E","R","R","!">>>>),
    JsonText(<<<<"n","u","l","l">>>>, JNull),
    JsonText(<<<<"{","}">>>>, TreeNode(App, V100, FALSE, <<>>, <<>>)),
    JsonText(<<<<"{","}">>>>, TreeNode(App, V100, FALSE, <<<<"E","1">>, <<"E","2">>>>,
        <<<<<<"x">>, TreeNode(<<"x">>, V100, TRUE, <<>>, <<>>)>>>>)),
    JsonText(<<<<"{","}">>>>, TreeNode(App, V100, FALSE, <<>>,
        <<<<<<"x">>, TreeNode(<<"x">>, V100, FALSE, <<>>,
            <<<<<<"y">>, TreeNode(<<"y">>, V200, TRUE, <<<<"E","1">>>>, <<>>)>>>>)>>>>)),
    JsonText(<<<<"{","}">>>>, TreeNode(App, V100, FALSE, <<>>,
        <<<<<<"x">>, TreeNode(<<"x">>, V100, TRUE, <<<<"E","1">>>>,
            <<<<<<"y">>, TreeNode(<<"y">>, V200, TRUE, <<>>, <<>>)>>>>)>>,
          <<<<"z">>, TreeNode(<<"z">>, V100, TRUE, <<>>, <<>>)>>>>)) }

\* outputs of the install dry run
CheckTexts == {
    NotJsonText(<<<<"o","k">>>>),
    NotJsonText(<<<<"u","n","m","e","t">>, <<"x"," ","u","n","m","e","t">>, <<"o","k">>>>),
    JsonText(<<<<"n","u","l","l">>>>, JNull),
    JsonText(<<<<"{","}">>>>, [t |-> "object", warnings |-> <<>>]),
    JsonText(<<<<"{","}">>>>, [t |-> "object", warnings |-> <<
        JString(<<"o","k">>),
        JWarning(<<ERESOLVE>>, <<>>),
        JString(<<"c","o","n","f","l","i","c","t"," ","x">>),
        JString(<<"P","e","e","r"," ","D","e","p"," ","M","i","s","s","i","n","g">>) >>]),
    JsonText(<<<<"{","\"","w","a","r","n","i","n","g","s","\"",":","[","n","u","l","l",",",
                 "\"","c","o","n","f","l","i","c","t"," ","x","\"","]","}">>>>,
             [t |-> "object", warnings |-> <<
                 JNull, JString(<<"c","o","n","f","l","i","c","t"," ","x">>) >>]) }

\* outputs of the dedupe dry run
DupeTexts == {
    NotJsonText(<<<<"u","p"," ","t","o"," ","d","a","t","e">>>>),
    NotJsonText(<<<<"r","e","m","o","v","e","d"," ","1"," ","d","u","p","l","i","c","a","t","e">>>>),
    NotJsonText(<<<<"d","e","d","u","p","e","d"," ","y","@","2",".","0",".","0"," ",
                    "x","@","1",".","0",".","0">>>>) }

ExecResults(texts) == {ExecThrew} \cup {ExecOk(t) : t \in texts}

LeftPad == <<"l","e","f","t","-","p","a","d">>
PkgB    == <<"b">>
Caret1  == <<"^","1",".","0",".","0">>
Tilde1  == <<"~","1",".","0",".","0">>
Caret2  == <<"^","2",".","0",".","0">>
\* >=1.0.0 <2.0.0
Range1  == <<">","=","1",".","0",".","0"," ","<","2",".","0",".","0">>

\* {"dependencies":{"left-pad":"^1.0.0"},"devDependencies":{"left-pad":"^2.0.0"}}
LeftPadManifest ==
    PackageData(<<<<<<LeftPad, Caret1>>>>>>, <<<<<<LeftPad, Caret2>>>>>>, <<>>, <<>>)

\* {"peerDependencies":{"b":"^1.0.0"},"optionalDependencies":{"b":"^2.0.0"}}
PeerOptionalManifest ==
    PackageData(<<>>, <<>>, <<<<<<PkgB, Caret1>>>>>>, <<<<<<PkgB, Caret2>>>>>>)

\* {"dependencies":{"b":"^1.0.0"},"devDependencies":{"b":"~1.0.0"}}
ConsistentManifest ==
    PackageData(<<<<<<PkgB, Caret1>>>>>>, <<<<<<PkgB, Tilde1>>>>>>, <<>>, <<>>)

\* the text of a manifest file: JSON.stringify of the object it parses to
Quoted(str) == <<"\"">> \o str \o <<"\"">>

SectionJson(name, sec) ==
    IF sec = <<>> THEN <<>>
    ELSE <<Quoted(name) \o <<":", "{">>
           \o Join([i \in DOMAIN sec[1] |->
                       Quoted(sec[1][i][1]) \o <<":">> \o Quoted(sec[1][i][2])],
                   <<",">>)
           \o <<"}">>>>

ManifestJson(m) ==
    <<"{">>
    \o Join(SectionJson(Dependencies, m.dependencies)
            \o SectionJson(DevDependencies, m.devDependencies)
            \o SectionJson(PeerDependencies, m.peerDependencies)
            \o SectionJson(OptionalDependencies, m.optionalDependencies),
            <<",">>)
    \o <<"}">>

ManifestText(m) == JsonText(<<ManifestJson(m)>>, m)

\* what a changed package.json may hold in the workflow runs
SampleContents == {
    ReadThrew,
    ReadOk(NotJsonText(<<<<"o","k">>>>)),
    ReadOk(ManifestText(LeftPadManifest)),
    ReadOk(ManifestText(PeerOptionalManifest)),
    ReadOk(ManifestText(ConsistentManifest)) }

\* every manifest over two packages and three specifiers with at most
\* MaxEntries entries
Packages     == {LeftPad, PkgB}
VersionSpecs == {Caret1, Tilde1, Range1}

SectionEntries ==
    UNION {{e \in [1..n -> Packages \X VersionSpecs] :
               \A i, j \in 1..n : e[i][1] = e[j][1] => i = j} :
           n \in 0..Cardinality(Packages)}

Sections == {<<>>} \cup {<<e>> : e \in SectionEntries}

SectionSize(sec) == IF sec = <<>> THEN 0 ELSE Len(sec[1])

Manifests ==
    {PackageData(m[1], m[2], m[3], m[4]) :
        m \in {x \in Sections \X Sections \X Sections \X Sections :
                 SectionSize(x[1]) + SectionSize(x[2]) + SectionSize(x[3])
                 + SectionSize(x[4]) <= MaxEntries}}

AllContents == {ReadOk(ManifestText(m)) : m \in Manifests}

\* answers typed at the (y/N) prompt
Answers == {<<>>, <<"y">>, <<"Y">>, <<"n">>}

-----------------------------------------------------------------------------
(* detectDependencyConflicts, probe by probe *)

Pending == [type |-> "pending", problems |-> <<>>, file |-> <<>>]

\* When the same call is made twice, the subprocesses and the disk answer
\* the second call as they answered the first: first keeps, per probe, what
\* the first call was given (seen: the probes that asked), and what it
\* returned.  A single call keeps nothing.
NotRecording ==
    [on |-> FALSE, seen |-> {}, TreeCheck |-> NotRun, DryRunCheck |-> NotRun,
     ManifestCheck |-> <<>>, DedupCheck |-> [present |-> FALSE, exec |-> NotRun],
     result |-> Pending, escaped |-> FALSE]

Recording == [NotRecording EXCEPT !.on = TRUE]

\* what the environment may answer the probe: anything of all for a first
\* call, the first call's answer for a second one
Replies(probe, all) ==
    IF invocation = 2 /\ probe \in first.seen THEN {first[probe]} ELSE all

Recorded(probe, reply) ==
    IF first.on /\ invocation = 1
    THEN [first EXCEPT ![probe] = reply, !.seen = @ \cup {probe}]
    ELSE first

\* node_modules may be missing; when it exists the dedupe dry run is run
DedupReplies ==
    {[present |-> FALSE, exec |-> NotRun]}
    \cup {[present |-> TRUE, exec |-> e] : e \in ExecResults(DupeTexts)}

\* nothing sent and nothing printed by the advisory step
NoAdvisory ==
    [apiKey |-> FALSE, call |-> "none", requests |-> <<>>, analysis |-> <<>>,
     advice |-> <<>>]

\* a text the response handler of a provider returned
SampleAnalysis == <<"a", "\n", "1", ".", " ", "b">>

\* nothing given and nothing obtained for the message yet
NoDraft ==
    [apiKey |-> FALSE, diff |-> "none", call |-> "none", response |-> <<>>,
     commitMessage |-> <<>>, fallback |-> FALSE, vulnerabilities |-> 0]

\* lines 281-305 behind a call of detectDependencyConflicts by commit() run
\* on its own without a message: every changed file staged as modified, both
\* sensitive-file checks passed, getGitStatus read
CalledByCommit ==
    /\ porcelain = [i \in DOMAIN changedFiles |-> <<"M", " ", " ">> \o changedFiles[i]]
    /\ stagedFiles = <<changedFiles, changedFiles>>
    /\ changes = [i \in DOMAIN changedFiles |->
                     [status |-> <<"M">>, file |-> changedFiles[i]]]
    /\ message = <<>>
    /\ drafting = NoDraft
    /\ branch = "none"
    /\ branchStatus = "unread"
    /\ pushAnswer = <<>>
    /\ pushing = "idle"

Init ==
    /\ pc = "detect"
    /\ changedFiles \in ChangeSets \ {<<>>}
    /\ lockfiles \in [pnpm : BOOLEAN, yarn : BOOLEAN]
    /\ packageManager = "npm"
    /\ probes = <<>>
    /\ execLog = <<>>
    /\ fsLog = <<>>
    /\ warnLog = <<>>
    /\ lsOutput = NotRun
    /\ checkOutput = NotRun
    /\ fileReads = <<>>
    /\ dupeOutput = NotRun
    /\ conflictInfo = Pending
    /\ escaped = FALSE
    /\ nodeModules = "unknown"
    /\ llmAnalysis = "none"
    /\ answer = <<>>
    /\ finalCommitMessage = <<>>
    /\ outcome = "running"
    /\ invocation = 1
    /\ first = NotRecording
    /\ advisory = NoAdvisory
    /\ analysis = SampleAnalysis
    /\ CalledByCommit

\* as Settle, a record not ending the cascade
SettleWithoutReturn(res, next) ==
    IF res.k = "throw"
    THEN /\ pc' = "returned"
         /\ conflictInfo' = OuterCatch.v
         /\ escaped' = OuterCatch.escaped
         /\ warnLog' = warnLog \o res.warn \o OuterCatch.warn
    ELSE /\ pc' = next
         /\ conflictInfo' = IF res.k = "return" THEN res.v
                            ELSE IF next = "returned" THEN Null ELSE conflictInfo
         /\ warnLog' = warnLog \o res.warn
         /\ UNCHANGED escaped

\* how a probe's result moves the cascade on: a record is returned, the
\* next probe is entered (after the last one, null is returned, line 322),
\* or the outer catch takes over (lines 323-326)
Settle(res, next) ==
    IF res.k = "return"
    THEN /\ pc' = "returned"
         /\ conflictInfo' = res.v
         /\ warnLog' = warnLog \o res.warn
         /\ UNCHANGED escaped
    ELSE IF res.k = "next"
    THEN /\ pc' = next
         /\ conflictInfo' = IF next = "returned" THEN Null ELSE conflictInfo
         /\ warnLog' = warnLog \o res.warn
         /\ UNCHANGED escaped
    ELSE /\ pc' = "returned"
         /\ conflictInfo' = OuterCatch.v
         /\ escaped' = OuterCatch.escaped
         /\ warnLog' = warnLog \o res.warn \o OuterCatch.warn

\* lines 86-107
Filter ==
    /\ pc = "detect"
    /\ IF Len(DependencyFiles(changedFiles)) = 0
       THEN /\ pc' = "returned"
            /\ conflictInfo' = Null
            /\ UNCHANGED <<packageManager, fsLog>>
       ELSE /\ pc' = "TreeCheck"
            /\ packageManager' = SelectManager(lockfiles.pnpm, lockfiles.yarn)
            /\ fsLog' = fsLog \o SelectorProbes(lockfiles.pnpm)
            /\ UNCHANGED conflictInfo
    /\ UNCHANGED <<changedFiles, lockfiles, probes, execLog, warnLog, lsOutput,
                   checkOutput, fileReads, dupeOutput, escaped, nodeModules,
                   llmAnalysis, answer, finalCommitMessage, outcome,
                   invocation, first, advisory>>
    /\ UNCHANGED callerVars
    /\ UNCHANGED tailVars

\* lines 109-169
TreeCheck ==
    /\ pc = "TreeCheck"
    /\ \E exec \in Replies("TreeCheck", ExecResults(LsTexts)) :
          /\ lsOutput' = exec
          /\ first' = Recorded("TreeCheck", exec)
          /\ Settle(TreeCheckResult(exec, DependencyFiles(changedFiles)), "DryRunCheck")
    /\ probes' = Append(probes, "TreeCheck")
    /\ execLog' = Append(execLog, LsCommand(packageManager))
    /\ UNCHANGED <<changedFiles, lockfiles, packageManager, fsLog, checkOutput,
                   fileReads, dupeOutput, nodeModules, llmAnalysis, answer,
                   finalCommitMessage, outcome, invocation, advisory>>
    /\ UNCHANGED callerVars
    /\ UNCHANGED tailVars

\* lines 171-227
DryRunCheck ==
    /\ pc = "DryRunCheck"
    /\ \E exec \in Replies("DryRunCheck", ExecResults(CheckTexts)) :
          /\ checkOutput' = exec
          /\ first' = Recorded("DryRunCheck", exec)
          /\ Settle(DryRunCheckResult(exec, DependencyFiles(changedFiles)),
                    "ManifestCheck")
    /\ probes' = Append(probes, "DryRunCheck")
    /\ execLog' = Append(execLog, CheckCommand(packageManager))
    /\ lsOutput' = NotRun
    /\ UNCHANGED <<changedFiles, lockfiles, packageManager, fsLog,
                   fileReads, dupeOutput, nodeModules, llmAnalysis, answer,
                   finalCommitMessage, outcome, invocation, advisory>>
    /\ UNCHANGED callerVars
    /\ UNCHANGED tailVars

\* lines 229-292, the manifests on disk drawn from contents
ManifestCheckOver(contents) ==
    /\ pc = "ManifestCheck"
    /\ \E disk \in Replies("ManifestCheck",
                           [{f \in Range(changedFiles) : IsPackageJson(f)} -> contents]) :
          LET r == ManifestCheckResult(DependencyFiles(changedFiles), disk) IN
          /\ fileReads' = r.reads
          /\ first' = Recorded("ManifestCheck", disk)
          /\ fsLog' = fsLog \o [i \in DOMAIN r.reads |-> r.reads[i][1]]
          /\ Settle(r.res, "DedupCheck")
    /\ probes' = Append(probes, "ManifestCheck")
    /\ checkOutput' = NotRun
    /\ UNCHANGED <<changedFiles, lockfiles, packageManager, execLog, lsOutput,
                   dupeOutput, nodeModules, llmAnalysis, answer,
                   finalCommitMessage, outcome, invocation, advisory>>
    /\ UNCHANGED callerVars
    /\ UNCHANGED tailVars

ManifestCheck == ManifestCheckOver(SampleContents)

\* lines 294-322
DedupCheck ==
    /\ pc = "DedupCheck"
    /\ \E reply \in Replies("DedupCheck", DedupReplies) :
          /\ nodeModules' = IF reply.present THEN "present" ELSE "absent"
          /\ dupeOutput' = reply.exec
          /\ execLog' = IF reply.present
                        THEN Append(execLog, DupeCheckCommand(packageManager))
                        ELSE execLog
          /\ first' = Recorded("DedupCheck", reply)
          /\ Settle(DedupCheckResult(reply.present, reply.exec), "returned")
    /\ probes' = Append(probes, "DedupCheck")
    /\ fsLog' = Append(fsLog, NodeModules)
    /\ fileReads' = <<>>
    /\ UNCHANGED <<changedFiles, lockfiles, packageManager, lsOutput, checkOutput,
                   llmAnalysis, answer, finalCommitMessage, outcome, invocation,
                   advisory>>
    /\ UNCHANGED callerVars
    /\ UNCHANGED tailVars

-----------------------------------------------------------------------------
(* commit(), from the call of detectDependencyConflicts on *)

\* the characters String.prototype.trim strips and \s matches
WhiteSpace == {" ", "\n", "\t", "\r"}

\* String.prototype.trim
RECURSIVE TrimStart(_)
TrimStart(s) ==
    IF s # <<>> /\ Head(s) \in WhiteSpace THEN TrimStart(Tail(s)) ELSE s
RECURSIVE TrimEnd(_)
TrimEnd(s) ==
    IF s # <<>> /\ s[Len(s)] \in WhiteSpace
    THEN TrimEnd(SubSeq(s, 1, Len(s) - 1)) ELSE s
Trim(s) == TrimEnd(TrimStart(s))

\* as promptUser, with confirmPush's default-yes test
promptUserDefaultYes(a) == ToLowerCase(a) # <<"n">>

\* security.js line 138: answer.toLowerCase() === 'y'
promptUser(a) == ToLowerCase(a) = <<"y">>

\* as IsInvalidMessage, comparing the message itself with 'chore: '
IsInvalidMessageUntrimmed(m) ==
    m = <<>> \/ Trim(m) = <<>> \/ m = <<"c","h","o","r","e",":"," ">>

\* line 438
IsInvalidMessage(m) ==
    m = <<>> \/ Trim(m) = <<>> \/ Trim(m) = <<"c","h","o","r","e",":"," ">>

\* lines 308-351: the result comes back; the callee's locals are gone.  An
\* exception out of the callee lands in commit()'s catch (lines 458-466).
Returned ==
    /\ pc = "returned"
    /\ IF escaped THEN pc' = "done" /\ outcome' = "exit 1"
       ELSE IF conflictInfo = Null THEN pc' = "message" /\ UNCHANGED outcome
       ELSE pc' = "advise" /\ UNCHANGED outcome
    /\ lsOutput' = NotRun
    /\ checkOutput' = NotRun
    /\ fileReads' = <<>>
    /\ dupeOutput' = NotRun
    /\ UNCHANGED <<changedFiles, lockfiles, packageManager, probes, execLog, fsLog,
                   warnLog, conflictInfo, escaped, nodeModules, llmAnalysis, answer,
                   finalCommitMessage, invocation, first, advisory>>
    /\ UNCHANGED callerVars
    /\ UNCHANGED tailVars

\* the decimal digits of a number, as a template literal prints it
DigitChars == <<"0","1","2","3","4","5","6","7","8","9">>

RECURSIVE DecimalString(_)
DecimalString(n) ==
    IF n < 10 THEN <<DigitChars[n + 1]>>
    ELSE DecimalString(n \div 10) \o <<DigitChars[(n % 10) + 1]>>

-----------------------------------------------------------------------------
(* commit(): the commit message *)

\* String.prototype.split on a one-character separator; the part being read
\* began at from
RECURSIVE SplitAt(_, _, _, _)
SplitAt(s, c, from, i) ==
    IF i > Len(s) THEN <<SubSeq(s, from, Len(s))>>
    ELSE IF s[i] = c
    THEN <<SubSeq(s, from, i - 1)>> \o SplitAt(s, c, i + 1, i + 1)
    ELSE SplitAt(s, c, from, i + 1)

Split(s, c) == SplitAt(s, c, 1, 1)

ComponentsDir == <<"c","o","m","p","o","n","e","n","t","s">>
FeaturesDir   == <<"f","e","a","t","u","r","e","s">>

\* git.js lines 41-53: the path part after the first part named dir, when
\* there is one and it is not empty
NamedUnder(file, dir) ==
    LET pathParts == Split(file, "/") IN
    IF dir \notin Range(pathParts) THEN {}
    ELSE LET idx == CHOOSE i \in DOMAIN pathParts :
                        pathParts[i] = dir /\ \A j \in 1..(i - 1) : pathParts[j] # dir
         IN IF idx + 1 <= Len(pathParts) /\ pathParts[idx + 1] # <<>>
            THEN {pathParts[idx + 1]}
            ELSE {}

\* git.js lines 56-59: the one list a change is put on
CategoryOf(change) ==
    IF "A" \in Range(change.status) THEN "added"
    ELSE IF "M" \in Range(change.status) THEN "modified"
    ELSE IF "D" \in Range(change.status) THEN "deleted"
    ELSE IF "R" \in Range(change.status) THEN "renamed"
    ELSE "none"

RECURSIVE FilesOfCategory(_, _)
FilesOfCategory(changeList, category) ==
    IF changeList = <<>> THEN <<>>
    ELSE (IF CategoryOf(Head(changeList)) = category
          THEN <<Head(changeList).file>> ELSE <<>>)
         \o FilesOfCategory(Tail(changeList), category)

\* git.js lines 29-63
categorizeChanges(changeList) ==
    [added      |-> FilesOfCategory(changeList, "added"),
     modified   |-> FilesOfCategory(changeList, "modified"),
     deleted    |-> FilesOfCategory(changeList, "deleted"),
     renamed    |-> FilesOfCategory(changeList, "renamed"),
     components |-> UNION {NamedUnder(changeList[i].file, ComponentsDir) :
                              i \in DOMAIN changeList},
     features   |-> UNION {NamedUnder(changeList[i].file, FeaturesDir) :
                              i \in DOMAIN changeList}]

StyleWord == <<"s","t","y","l","e">>
CssWord   == <<"c","s","s">>

\* git.js lines 70-108
generateSimpleCommitMessage(changeList) ==
    LET categories == categorizeChanges(changeList)
        isMainlyModifications == Len(categories.modified) > Len(categories.added)
    IN IF isMainlyModifications
       THEN IF \E i \in DOMAIN categories.modified :
                  \/ Includes(categories.modified[i], StyleWord)
                  \/ Includes(categories.modified[i], CssWord)
            THEN <<"s","t","y","l","e",":"," ","u","p","d","a","t","e"," ","s","t",
              "y","l","i","n","g">>
            ELSE IF Cardinality(categories.components) > 0
            THEN <<"f","i","x","(","u","i",")",":"," ","u","p","d","a","t","e"," ",
              "c","o","m","p","o","n","e","n","t","s">>
            ELSE <<"f","i","x",":"," ","u","p","d","a","t","e"," ","i","m","p","l",
              "e","m","e","n","t","a","t","i","o","n">>
       ELSE IF Len(categories.added) > 0
       THEN IF Cardinality(categories.components) = 1
            THEN <<"f","e","a","t","(","u","i",")",":"," ","a","d","d"," ">>
                 \o (CHOOSE c \in categories.components : TRUE)
            ELSE <<"f","e","a","t",":"," ","a","d","d"," ","n","e","w"," ","f","e",
              "a","t","u","r","e","s">>
       ELSE <<"c","h","o","r","e",":"," ">>

\* part_003 line 247: the types of the conventional format
CommitTypes == {
    <<"f","e","a","t">>,
    <<"f","i","x">>,
    <<"d","o","c","s">>,
    <<"s","t","y","l","e">>,
    <<"r","e","f","a","c","t","o","r">>,
    <<"p","e","r","f">>,
    <<"t","e","s","t">>,
    <<"c","h","o","r","e">> }

\* [a-z-]
ScopeChars == Range(LowerChars) \cup {"-"}

\* what . does not match
LineTerminators == {"\n", "\r"}

\* ": .+" at the start of t
HasSummary(t) ==
    Len(t) >= 3 /\ t[1] = ":" /\ t[2] = " " /\ t[3] \notin LineTerminators

\* "(\([a-z-]+\))" at the start of t: what follows it, in a tuple, or <<>>
AfterScope(t) ==
    IF t = <<>> \/ t[1] # "(" THEN <<>>
    ELSE LET e == RunEnd(t, 2, ScopeChars) IN
         IF e >= 2 /\ e + 1 <= Len(t) /\ t[e + 1] = ")"
         THEN <<SubSeq(t, e + 2, Len(t))>>
         ELSE <<>>

\* part_003 line 247:
\* /^(feat|fix|docs|style|refactor|perf|test|chore)(\([a-z-]+\))?: .+/.test
MatchesConventional(firstLine) ==
    \E type \in CommitTypes :
        /\ StartsWith(firstLine, type)
        /\ LET rest == SubSeq(firstLine, Len(type) + 1, Len(firstLine)) IN
           \/ HasSummary(rest)
           \/ (AfterScope(rest) # <<>> /\ HasSummary(AfterScope(rest)[1]))

\* part_003 line 252: the longest first line taken from the provider
MaxFirstLine == 80

\* how the provider call of generateAICommitMessage ends; the diff is small,
\* large (a second git diff is run, lines 186-189) or git diff throws
DiffKinds == {"small", "large", "throws"}

DiffCommands(diff) ==
    IF diff = "large" THEN <<"git diff --staged", "git diff --staged --stat">>
    ELSE <<"git diff --staged">>

\* what generateAICommitMessage hands back as the standard message
Fallback(changeList, commands) ==
    [message |-> generateSimpleCommitMessage(changeList), fallback |-> TRUE,
     commands |-> commands, threw |-> FALSE]

\* as generateAICommitMessage, without the test of the first line's length
generateAIUnlimited(changeList, apiKey, diff, call, response) ==
    IF ~apiKey THEN Fallback(changeList, <<>>)
    ELSE IF diff = "throws" \/ call # "ok" THEN Fallback(changeList, DiffCommands(diff))
    ELSE IF ~MatchesConventional(Split(response, "\n")[1])
    THEN Fallback(changeList, DiffCommands(diff))
    ELSE [message |-> response, fallback |-> FALSE,
          commands |-> DiffCommands(diff), threw |-> FALSE]

\* part_003 lines 162-271: apiKey is what getProviderConfig found, diff how
\* git diff went, call how the provider call ended and response the text its
\* response handler returned
generateAICommitMessage(changeList, apiKey, diff, call, response) ==
    IF ~apiKey THEN Fallback(changeList, <<>>)                       \* 166-169
    ELSE IF diff = "throws" \/ call # "ok"
    THEN Fallback(changeList, DiffCommands(diff))                   \* 262-270
    ELSE LET firstLine == Split(response, "\n")[1] IN
         IF ~MatchesConventional(firstLine)
         THEN Fallback(changeList, DiffCommands(diff))              \* 247-250
         ELSE IF Len(firstLine) > MaxFirstLine
         THEN Fallback(changeList, DiffCommands(diff))              \* 252-255
         ELSE [message |-> response, fallback |-> FALSE,
               commands |-> DiffCommands(diff), threw |-> FALSE]

\* part_003 line 434
VulnerabilityNote(count) ==
    <<"\n","\n","[","W","A","R","N","I","N","G","]"," ","C","o","n",
              "t","a","i","n","s"," ">> \o DecimalString(count)
    \o <<" ","s","e","c","u","r","i","t","y"," ","v","u","l","n","e","r",
              "a","b","i","l","i","t","i","e","s">>

\* dependency.js line 30: the most problems put into the prompt verbatim
SampleSize == 5

AndMore          == <<".",".",".","a","n","d"," ">>
MoreSimilarIssues == <<" ","m","o","r","e"," ","s","i","m","i","l","a","r"," ",
                       "i","s","s","u","e","s">>

\* as conflictSample, counting all problems in the synthetic line
conflictSampleTotal(conflicts) ==
    IF Len(conflicts) > SampleSize
    THEN SubSeq(conflicts, 1, SampleSize)
         \o <<AndMore \o DecimalString(Len(conflicts)) \o MoreSimilarIssues>>
    ELSE conflicts

\* dependency.js lines 30-32
conflictSample(conflicts) ==
    IF Len(conflicts) > SampleSize
    THEN SubSeq(conflicts, 1, SampleSize)
         \o <<AndMore \o DecimalString(Len(conflicts) - SampleSize)
               \o MoreSimilarIssues>>
    ELSE conflicts

\* dependency.js lines 35-50: of the prompt, the two values put into the
\* fixed text
BuildPrompt(conflicts, conflictType) ==
    [conflictType |-> conflictType,
     conflictMessages |-> Join(conflictSample(conflicts), <<"\n">>)]

\* dependency.js line 69, the separator /\n(?:[\d]+\.\s*)/ tried at i: the
\* index of the last character it matches, 0 when it does not match there
SeparatorEnd(s, i) ==
    IF s[i] # "\n" THEN 0
    ELSE LET d == RunEnd(s, i + 1, Digits) IN
         IF d < i + 1 \/ d + 1 > Len(s) \/ s[d + 1] # "." THEN 0
         ELSE RunEnd(s, d + 2, WhiteSpace)

\* String.prototype.split with that separator: the pieces between its
\* matches, found from left to right; the piece being read began at from
RECURSIVE SplitSections(_, _, _)
SplitSections(s, from, i) ==
    IF i > Len(s) THEN <<SubSeq(s, from, Len(s))>>
    ELSE LET e == SeparatorEnd(s, i) IN
         IF e = 0 THEN SplitSections(s, from, i + 1)
         ELSE <<SubSeq(s, from, i - 1)>> \o SplitSections(s, e + 1, e + 1)

\* line 69
sections(text) == SplitSections(text, 1, 1)

RECURSIVE TrimEach(_)
TrimEach(parts) ==
    IF parts = <<>> THEN <<>> ELSE <<Trim(Head(parts))>> \o TrimEach(Tail(parts))

NonEmpty(part) == part # <<>>

\* lines 71-74: the value analyzeDependencyConflictsWithLLM returns for the
\* text the response handler gave it
LlmAnalysis(text) ==
    [explanation |-> Trim(sections(text)[1]),
     strategy    |-> SelectSeq(TrimEach(Tail(sections(text))), NonEmpty)]

\* the analysis returned when the call ends as llm
Analysed(llm) == IF llm = "ok" THEN <<LlmAnalysis(analysis)>> ELSE <<>>

\* how the call of the language model ends: fetch rejects, the status is
\* not ok, response.json() rejects, the response handler or split throws,
\* or an analysis comes back
LlmFailures == {"network error", "http error", "not json", "handler throws"}
LlmOutcomes == LlmFailures \cup {"ok"}

\* as analyzeDependencyConflictsWithLLM, calling the model without a key
analyzeWithoutKeyCheck(apiKey, conflicts, conflictType, llm) ==
    [result   |-> IF llm = "ok" THEN "analysis" ELSE "null",
     value    |-> Analysed(llm),
     requests |-> <<BuildPrompt(conflicts, conflictType)>>,
     threw    |-> FALSE]

\* as analyzeDependencyConflictsWithLLM, without its catch
analyzeUncaught(apiKey, conflicts, conflictType, llm) ==
    IF ~apiKey
    THEN [result |-> "null", value |-> <<>>, requests |-> <<>>, threw |-> FALSE]
    ELSE [result   |-> IF llm = "ok" THEN "analysis" ELSE "null",
          value    |-> Analysed(llm),
          requests |-> <<BuildPrompt(conflicts, conflictType)>>,
          threw    |-> llm \in LlmFailures]

\* dependency.js lines 19-79: apiKey is what getProviderConfig found, llm
\* how the call ends; requests are the prompts handed to fetch
analyzeDependencyConflictsWithLLM(apiKey, conflicts, conflictType, llm) ==
    IF ~apiKey
    THEN [result |-> "null", value |-> <<>>, requests |-> <<>>, threw |-> FALSE]
    ELSE [result   |-> IF llm = "ok" THEN "analysis" ELSE "null",
          value    |-> Analysed(llm),
          requests |-> <<BuildPrompt(conflicts, conflictType)>>,
          threw    |-> FALSE]

\* lines 359-367: what is printed for an analysis
AiAdvice == <<<<"AI Analysis", "">>>>

\* lines 378-401: the advice printed without an analysis, each line with
\* the command put into it
StaticAdvice(type, pkgManager) ==
    IF type = "npm_dependency_conflict"
    THEN << <<"These conflicts may cause unexpected behavior or build failures.", "">>,
            <<"Consider running install to resolve the conflicts.", pkgManager>> >>
    ELSE IF type = "invalid_dependencies"
    THEN << <<"Some dependencies could not be resolved at their specified versions.", "">>,
            <<"Check your package.json for incompatible version ranges.", "">> >>
    ELSE IF type = "peer_dependency_conflict"
    THEN << <<"Peer dependency requirements could not be satisfied.", "">>,
            <<"You may need to install compatible versions of related packages.", "">> >>
    ELSE IF type = "version_conflict"
    THEN << <<"Multiple versions of the same package are specified in different dependency types.", "">>,
            <<"Align the versions to avoid potential runtime issues.", "">> >>
    ELSE IF type = "duplicate_packages"
    THEN << <<"Duplicate packages were detected in node_modules.", "">>,
            <<"You might want to run this to optimize your dependencies.",
              IF pkgManager = "yarn" THEN "yarn deduplicate"
              ELSE IF pkgManager = "pnpm" THEN "pnpm dedupe"
              ELSE "npm dedupe">> >>
    ELSE << <<"Consider resolving these conflicts before committing.", "">> >>

\* lines 309-404: the record is displayed, the advisory step returns an
\* analysis or null, and on null the static advice looks the package
\* manager up again (lines 371-376).  An exception thrown while the record
\* is displayed (problems that are no list of strings) lands in commit()'s
\* catch (lines 458-466), as would one thrown by the advisory step.
Advise ==
    /\ pc = "advise"
    /\ \E display \in {"shown", "throw"} :
       \E apiKey \in (IF display = "shown" THEN BOOLEAN ELSE {FALSE}) :
       \E llm \in (IF apiKey THEN LlmOutcomes ELSE {"none"}) :
          LET r == analyzeDependencyConflictsWithLLM(
                       apiKey, conflictInfo.problems, conflictInfo.type, llm)
          IN IF display = "throw"
             THEN /\ pc' = "done"
                  /\ outcome' = "exit 1"
                  /\ UNCHANGED <<llmAnalysis, advisory, fsLog>>
             ELSE IF r.threw
             THEN /\ pc' = "done"
                  /\ outcome' = "exit 1"
                  /\ advisory' = [apiKey |-> apiKey, call |-> llm,
                                  requests |-> r.requests, analysis |-> <<>>,
                                  advice |-> <<>>]
                  /\ UNCHANGED <<llmAnalysis, fsLog>>
             ELSE /\ pc' = "prompt"
                  /\ llmAnalysis' = r.result
                  /\ advisory' =
                        [apiKey |-> apiKey, call |-> llm, requests |-> r.requests,
                         analysis |-> r.value,
                         advice |->
                            IF r.result = "analysis" THEN AiAdvice
                            ELSE StaticAdvice(conflictInfo.type,
                                     SelectManager(lockfiles.pnpm, lockfiles.yarn))]
                  /\ fsLog' = IF r.result = "null"
                              THEN fsLog \o SelectorProbes(lockfiles.pnpm)
                              ELSE fsLog
                  /\ UNCHANGED outcome
    /\ UNCHANGED <<changedFiles, lockfiles, packageManager, probes, execLog, warnLog,
                   lsOutput, checkOutput, fileReads, dupeOutput, conflictInfo,
                   escaped, nodeModules, answer, finalCommitMessage, invocation,
                   first>>
    /\ UNCHANGED callerVars
    /\ UNCHANGED tailVars

\* lines 406-413; llmAnalysis lives in the block that ends here
Prompt ==
    /\ pc = "prompt"
    /\ \E a \in Answers :
          /\ answer' = <<a>>
          /\ IF promptUser(a)
             THEN pc' = "message" /\ UNCHANGED outcome
             ELSE pc' = "done" /\ outcome' = "cancelled"
    /\ llmAnalysis' = "none"
    /\ advisory' = NoAdvisory
    /\ UNCHANGED <<changedFiles, lockfiles, packageManager, probes, execLog, fsLog,
                   warnLog, lsOutput, checkOutput, fileReads, dupeOutput,
                   conflictInfo, escaped, nodeModules, finalCommitMessage,
                   invocation, first>>
    /\ UNCHANGED callerVars
    /\ UNCHANGED tailVars

\* the message as commit() was given it: the argument wins over the
\* generators (line 429)
GivenMessage ==
    [message |-> message, fallback |-> FALSE, commands |-> <<>>, threw |-> FALSE]

\* lines 415-441: the audit, the message and its validation.  env holds what
\* the audit may count, whether an API key may be set, how git diff and the
\* provider call may go and what the provider may reply.
PrepareMessageOver(env) ==
    /\ pc = "message"
    /\ \E count \in env.audits :
       \E apiKey \in (IF message # <<>> THEN {FALSE} ELSE env.keys) :
       \E diff \in (IF apiKey THEN env.diffs ELSE {"none"}) :
       \E call \in (IF apiKey /\ diff # "throws" THEN env.calls ELSE {"none"}) :
       \E response \in (IF call = "ok" THEN env.replies ELSE {<<>>}) :
          LET g == IF message # <<>> THEN GivenMessage
                   ELSE generateAICommitMessage(changes, apiKey, diff, call, response)
              final == g.message
                       \o (IF count > 0 THEN VulnerabilityNote(count) ELSE <<>>)
          IN /\ drafting' = [apiKey |-> apiKey, diff |-> diff, call |-> call,
                             response |-> response, commitMessage |-> g.message,
                             fallback |-> g.fallback, vulnerabilities |-> count]
             /\ execLog' = Append(execLog, "npm audit --json 2>/dev/null || true")
                           \o g.commands
             /\ IF g.threw
                THEN /\ pc' = "done"
                     /\ outcome' = "exit 1"
                     /\ UNCHANGED finalCommitMessage
                ELSE /\ finalCommitMessage' = final
                     /\ IF IsInvalidMessage(final)
                        THEN pc' = "done" /\ outcome' = "invalid message"
                        ELSE pc' = "commit" /\ UNCHANGED outcome
    /\ UNCHANGED <<changedFiles, lockfiles, packageManager, probes, fsLog, warnLog,
                   lsOutput, checkOutput, fileReads, dupeOutput, conflictInfo,
                   escaped, nodeModules, llmAnalysis, answer, invocation, first,
                   advisory>>
    /\ UNCHANGED callerVars
    /\ UNCHANGED porcelain

\* a clean audit and no API key
NoProvider ==
    [audits |-> {0}, keys |-> {FALSE}, diffs |-> {"none"}, calls |-> {"none"},
     replies |-> {<<>>}]

PrepareMessage == PrepareMessageOver(NoProvider)


\* lines 443-466
GitCommit ==
    /\ pc = "commit"
    /\ \E r \in {"committed", "nothing to commit", "exit 1"} :
          /\ outcome' = r
          /\ porcelain' = IF r = "committed" THEN <<>> ELSE porcelain
    /\ execLog' = Append(execLog, "git commit")
    /\ pc' = "done"
    /\ UNCHANGED <<changedFiles, lockfiles, packageManager, probes, fsLog, warnLog,
                   lsOutput, checkOutput, fileReads, dupeOutput, conflictInfo,
                   escaped, nodeModules, llmAnalysis, answer, finalCommitMessage,
                   invocation, first, advisory>>
    /\ UNCHANGED callerVars
    /\ UNCHANGED drafting

Next ==
    \/ Filter
    \/ TreeCheck
    \/ DryRunCheck
    \/ ManifestCheck
    \/ DedupCheck
    \/ Returned
    \/ Advise
    \/ Prompt
    \/ PrepareMessage
    \/ GitCommit

Spec == Init /\ [][Next]_vars

-----------------------------------------------------------------------------
(* The manifest probe on its own: entered after a clean TreeCheck and a     *)
(* clean DryRunCheck of a run on ["package.json"] with npm, it reads every  *)
(* manifest of Manifests.                                                   *)

InitManifest ==
    /\ pc = "ManifestCheck"
    /\ changedFiles = <<PackageJson>>
    /\ lockfiles = [pnpm |-> FALSE, yarn |-> FALSE]
    /\ packageManager = "npm"
    /\ probes = <<"TreeCheck", "DryRunCheck">>
    /\ execLog = <<LsCommand("npm"), CheckCommand("npm")>>
    /\ fsLog = <<PnpmLockYaml, YarnLock>>
    /\ warnLog = <<>>
    /\ lsOutput = NotRun
    /\ checkOutput = ExecOk(NotJsonText(<<<<"o","k">>>>))
    /\ fileReads = <<>>
    /\ dupeOutput = NotRun
    /\ conflictInfo = Pending
    /\ escaped = FALSE
    /\ nodeModules = "unknown"
    /\ llmAnalysis = "none"
    /\ answer = <<>>
    /\ finalCommitMessage = <<>>
    /\ outcome = "running"
    /\ invocation = 1
    /\ first = NotRecording
    /\ advisory = NoAdvisory
    /\ analysis = SampleAnalysis
    /\ CalledByCommit

ManifestCheckAll == ManifestCheckOver(AllContents)

NextManifest == ManifestCheckAll

SpecManifest == InitManifest /\ [][NextManifest]_vars

-----------------------------------------------------------------------------
(* detectDependencyConflicts called twice on the same ChangeSet, with the   *)
(* same files on disk and the same subprocess outputs.                      *)

InitTwice ==
    /\ pc = "detect"
    /\ changedFiles \in ChangeSets \ {<<>>}
    /\ lockfiles \in [pnpm : BOOLEAN, yarn : BOOLEAN]
    /\ packageManager = "npm"
    /\ probes = <<>>
    /\ execLog = <<>>
    /\ fsLog = <<>>
    /\ warnLog = <<>>
    /\ lsOutput = NotRun
    /\ checkOutput = NotRun
    /\ fileReads = <<>>
    /\ dupeOutput = NotRun
    /\ conflictInfo = Pending
    /\ escaped = FALSE
    /\ nodeModules = "unknown"
    /\ llmAnalysis = "none"
    /\ answer = <<>>
    /\ finalCommitMessage = <<>>
    /\ outcome = "running"
    /\ invocation = 1
    /\ first = Recording
    /\ advisory = NoAdvisory
    /\ analysis = SampleAnalysis
    /\ CalledByCommit

\* the second call: its parameter is the same ChangeSet, its locals are new
\* (line 86), and the logs of the first call are put aside
Reinvoke ==
    /\ pc = "returned"
    /\ first.on
    /\ invocation = 1
    /\ invocation' = 2
    /\ first' = [first EXCEPT !.result = conflictInfo, !.escaped = escaped]
    /\ pc' = "detect"
    /\ packageManager' = "npm"
    /\ probes' = <<>>
    /\ execLog' = <<>>
    /\ fsLog' = <<>>
    /\ warnLog' = <<>>
    /\ lsOutput' = NotRun
    /\ checkOutput' = NotRun
    /\ fileReads' = <<>>
    /\ dupeOutput' = NotRun
    /\ conflictInfo' = Pending
    /\ escaped' = FALSE
    /\ nodeModules' = "unknown"
    /\ UNCHANGED <<changedFiles, lockfiles, llmAnalysis, answer, finalCommitMessage,
                   outcome, advisory>>
    /\ UNCHANGED callerVars
    /\ UNCHANGED tailVars

NextTwice ==
    \/ Filter
    \/ TreeCheck
    \/ DryRunCheck
    \/ ManifestCheck
    \/ DedupCheck
    \/ Reinvoke

SpecTwice == InitTwice /\ [][NextTwice]_vars

-----------------------------------------------------------------------------
(* The advisory step on its own: commit() has been handed an                *)
(* npm_dependency_conflict record for ["package.json"] with npm, its        *)
(* problems any list of up to MaxProblems top-level problems of the list    *)
(* command.                                                                 *)

ProblemTexts == {<<"E","1">>, <<"E","2">>}

ProblemLists == UNION {[1..n -> ProblemTexts] : n \in 1..MaxProblems}

InitAdvisory ==
    /\ pc = "advise"
    /\ changedFiles = <<PackageJson>>
    /\ lockfiles = [pnpm |-> FALSE, yarn |-> FALSE]
    /\ packageManager = "npm"
    /\ probes = <<"TreeCheck">>
    /\ execLog = <<LsCommand("npm")>>
    /\ fsLog = <<PnpmLockYaml, YarnLock>>
    /\ warnLog = <<>>
    /\ lsOutput = NotRun
    /\ checkOutput = NotRun
    /\ fileReads = <<>>
    /\ dupeOutput = NotRun
    /\ \E problems \in ProblemLists :
          conflictInfo = ConflictRecord("npm_dependency_conflict", problems, PackageJson)
    /\ escaped = FALSE
    /\ nodeModules = "unknown"
    /\ llmAnalysis = "none"
    /\ answer = <<>>
    /\ finalCommitMessage = <<>>
    /\ outcome = "running"
    /\ invocation = 1
    /\ first = NotRecording
    /\ advisory = NoAdvisory
    /\ analysis = SampleAnalysis
    /\ CalledByCommit

NextAdvisory == Advise

SpecAdvisory == InitAdvisory /\ [][NextAdvisory]_vars

-----------------------------------------------------------------------------
(* The advisory step on its own, over every text of up to MaxText          *)
(* characters that the response handler may hand back.                      *)

ResponseChars == {"a", "1", ".", "\n", " "}

ResponseTexts == UNION {[1..n -> ResponseChars] : n \in 0..MaxText}

InitAnalysis ==
    /\ pc = "advise"
    /\ changedFiles = <<PackageJson>>
    /\ lockfiles = [pnpm |-> FALSE, yarn |-> FALSE]
    /\ packageManager = "npm"
    /\ probes = <<"TreeCheck">>
    /\ execLog = <<LsCommand("npm")>>
    /\ fsLog = <<PnpmLockYaml, YarnLock>>
    /\ warnLog = <<>>
    /\ lsOutput = NotRun
    /\ checkOutput = NotRun
    /\ fileReads = <<>>
    /\ dupeOutput = NotRun
    /\ conflictInfo =
          ConflictRecord("npm_dependency_conflict", <<<<"E","1">>>>, PackageJson)
    /\ escaped = FALSE
    /\ nodeModules = "unknown"
    /\ llmAnalysis = "none"
    /\ answer = <<>>
    /\ finalCommitMessage = <<>>
    /\ outcome = "running"
    /\ invocation = 1
    /\ first = NotRecording
    /\ advisory = NoAdvisory
    /\ analysis \in ResponseTexts
    /\ CalledByCommit

NextAnalysis == Advise

SpecAnalysis == InitAnalysis /\ [][NextAnalysis]_vars

-----------------------------------------------------------------------------
(* The message step over every provider outcome: commit() run on its own  *)
(* on a change set without dependency files, with or without a message.     *)

\* what the provider's response handler may return as the message
Filler(n) == [i \in 1..n |-> "x"]

CommitReplies == {
    <<>>,
    <<"f","e","a","t",":"," ","x">>,
    <<"f","e","a","t","(","u","i","-","k","i","t",")",":"," ","x">>,
    <<"f","i","x",":"," ","a","\n","b","o","d","y">>,
    <<"F","i","x",":"," ","x">>,
    <<"f","e","a","t",":","x">>,
    <<"f","e","a","t",":"," ">>,
    <<"w","i","p",":"," ","x">>,
    <<"f","e","a","t","(","U","I",")",":"," ","x">>,
    <<"f","e","a","t","(",")",":"," ","x">>,
    <<"b","u","g","\n","f","i","x",":"," ","x">>,
    <<"f","i","x",":"," ">> \o Filler(MaxFirstLine - 5),
    <<"f","i","x",":"," ">> \o Filler(MaxFirstLine - 4),
    <<"f","i","x",":"," ">> \o Filler(MaxFirstLine - 4) \o <<"\n","b","o","d","y">> }

\* any audit result, any provider outcome
AnyProvider ==
    [audits |-> {0, 1}, keys |-> BOOLEAN, diffs |-> DiffKinds,
     calls |-> LlmOutcomes, replies |-> CommitReplies]

PrepareMessageAll == PrepareMessageOver(AnyProvider)

\* the statuses getGitStatus gives after `git add .`
StagedCodes == {<<"A">>, <<"M">>, <<"D">>, <<"R">>}

FileJs     == <<"a",".","j","s">>
FileCss    == <<"a",".","c","s","s">>
ComponentB == <<"c","o","m","p","o","n","e","n","t","s","/","b">>
ComponentC == <<"s","r","c","/","c","o","m","p","o","n","e","n","t","s","/","c",
              "/","i",".","j","s">>

FeatureD   == <<"f","e","a","t","u","r","e","s","/","d">>

MessageFiles == {FileJs, FileCss, ComponentB, ComponentC, FeatureD}

StagedChanges == [status : StagedCodes, file : MessageFiles]

\* the message argument: none, blank, or a message
MessageArgs == {<<>>, <<" ">>, <<"f","i","x",":"," ","x">>}

\* the two columns of a porcelain line for a trimmed status
StatusColumns(status) == IF Len(status) = 1 THEN status \o <<" ">> ELSE status

\* commit() at line 308 with these changes staged and this message given
AtDetect(changeList, msg) ==
    /\ pc = "detect"
    /\ changedFiles = [i \in DOMAIN changeList |-> changeList[i].file]
    /\ lockfiles = [pnpm |-> FALSE, yarn |-> FALSE]
    /\ packageManager = "npm"
    /\ probes = <<>>
    /\ execLog = <<>>
    /\ fsLog = <<>>
    /\ warnLog = <<>>
    /\ lsOutput = NotRun
    /\ checkOutput = NotRun
    /\ fileReads = <<>>
    /\ dupeOutput = NotRun
    /\ conflictInfo = Pending
    /\ escaped = FALSE
    /\ nodeModules = "unknown"
    /\ llmAnalysis = "none"
    /\ answer = <<>>
    /\ finalCommitMessage = <<>>
    /\ outcome = "running"
    /\ invocation = 1
    /\ first = NotRecording
    /\ advisory = NoAdvisory
    /\ analysis = SampleAnalysis
    /\ porcelain = [i \in DOMAIN changeList |->
                       StatusColumns(changeList[i].status) \o <<" ">>
                       \o changeList[i].file]
    /\ stagedFiles = <<changedFiles, changedFiles>>
    /\ changes = changeList
    /\ message = msg
    /\ drafting = NoDraft
    /\ branch = "none"
    /\ branchStatus = "unread"
    /\ pushAnswer = <<>>
    /\ pushing = "idle"

SampleChanges == {
    <<[status |-> <<"M">>, file |-> FileCss]>>,
    <<[status |-> <<"A">>, file |-> ComponentB]>>,
    <<[status |-> <<"D">>, file |-> FileJs]>> }

InitMessage ==
    \E changeList \in SampleChanges : \E msg \in MessageArgs :
        AtDetect(changeList, msg)

NextMessage ==
    \/ Filter
    \/ Returned
    \/ PrepareMessageAll
    \/ GitCommit

SpecMessage == InitMessage /\ [][NextMessage]_vars

-----------------------------------------------------------------------------
(* The message step without a provider, over every list of up to           *)
(* MaxChanges staged changes: commit() run on its own without a message.    *)

ChangeLists == UNION {[1..n -> StagedChanges] : n \in 1..MaxChanges}

\* any audit result, no API key
AuditOnly ==
    [audits |-> {0, 1}, keys |-> {FALSE}, diffs |-> {"none"}, calls |-> {"none"},
     replies |-> {<<>>}]

PrepareMessageAudited == PrepareMessageOver(AuditOnly)

InitSimple == \E changeList \in ChangeLists : AtDetect(changeList, <<>>)

NextSimple ==
    \/ Filter
    \/ Returned
    \/ PrepareMessageAudited
    \/ GitCommit

SpecSimple == InitSimple /\ [][NextSimple]_vars

-----------------------------------------------------------------------------
(* push(): the sensitive-file checks and the staging of commit(), the run  *)
(* of commit(), and the push that follows it.                              *)

sensitivePatterns == {
    <<".","e","n","v">>, <<".","e","n","v",".","l","o","c","a","l">>, <<".","e","n","v",".","d","e","v","e","l","o","p","m","e","n","t">>, <<".","e","n","v",".","p","r","o","d","u","c","t","i","o","n">>, <<".","e","n","v",".","t","e","s","t">>,
    <<"c","r","e","d","e","n","t","i","a","l","s",".","j","s","o","n">>, <<"s","e","c","r","e","t","s",".","j","s","o","n">>, <<"i","d","_","r","s","a">>, <<"i","d","_","d","s","a">>, <<"k","e","y",".","p","e","m">>,
    <<"c","e","r","t",".","k","e","y">>, <<"f","i","r","e","b","a","s","e","-","a","d","m","i","n","s","d","k">> }

exceptions == {
    <<".","e","n","v",".","l","o","c","a","l",".","e","x","a","m","p","l",
        "e">>, <<".","e","n","v",".","e","x","a","m","p","l","e">>, <<".","e","n","v",".","s","a","m","p","l","e">>, <<".","e","n","v",".","t","e","m","p","l","a","t","e">> }

\* as IsSensitive, an exception name anywhere in the path
IsSensitiveIncludes(file) ==
    /\ ~(\E exception \in exceptions : Includes(file, exception))
    /\ \E pattern \in sensitivePatterns : Includes(file, pattern)

\* the filter of checkSensitiveFiles (security.js lines 47-54)
IsSensitive(file) ==
    /\ ~(\E exception \in exceptions : EndsWith(file, exception))
    /\ \E pattern \in sensitivePatterns : Includes(file, pattern)

\* what `git status --porcelain` prints for these lines
StatusText(lines) == Flatten([i \in DOMAIN lines |-> lines[i] \o <<"\n">>])

\* line.slice(3)
Slice3(line) == SubSeq(line, 4, Len(line))

SliceEach(lines) == [i \in DOMAIN lines |-> Slice3(lines[i])]

\* security.js lines 41-44
StatusFiles(text) == SliceEach(SelectSeq(Split(text, "\n"), NonEmpty))

\* getGitStatus (part_001 lines 13-22)
getGitStatus(text) ==
    LET lines == SelectSeq(Split(text, "\n"), NonEmpty)
    IN [i \in DOMAIN lines |->
           [status |-> Trim(SubSeq(lines[i], 1, 2)), file |-> Slice3(lines[i])]]

\* a file whose only change is undone when it is staged (line endings the
\* repository normalises)
NormalisedFile == <<"c","r","l","f",".","t","x","t">>

\* an untracked directory and the one file in it
UntrackedDir  == <<"c","o","n","f","/">>
FileInDir     == <<"c","o","n","f","/",".","e","n","v">>

\* what `git add .` makes of one line of the status
AddLine(line) ==
    LET x    == line[1]
        y    == line[2]
        path == Slice3(line)
    IN IF path = NormalisedFile THEN <<>>
       ELSE IF x = "?" /\ path = UntrackedDir THEN <<<<"A", " ", " ">> \o FileInDir>>
       ELSE IF x = "?" THEN <<<<"A", " ", " ">> \o path>>
       ELSE IF x = " " THEN <<<<y, " ", " ">> \o path>>
       ELSE <<<<x, " ", " ">> \o path>>

AddAll(lines) == Flatten([i \in DOMAIN lines |-> AddLine(lines[i])])

\* the branch argument of push(): absent or a name
BranchArgs == {"", "dev"}

\* what `git symbolic-ref --short HEAD` gives getCurrentBranch: a name, or
\* it throws on a detached HEAD
CurrentBranches == {"work", "throws"}

\* getCurrentBranch (part_001 lines 114-122), "" for null
getCurrentBranch(ref) == IF ref = "throws" THEN "" ELSE ref

\* what is left unchanged by the steps around the cascade
cascadeVars == <<lockfiles, packageManager, probes, fsLog, warnLog, lsOutput,
                 checkOutput, fileReads, dupeOutput, conflictInfo, escaped,
                 nodeModules, llmAnalysis, answer, invocation, first, advisory,
                 analysis>>

\* push() lines 476-482: the branch is settled and commit() is called
PushStart ==
    /\ pc = "push"
    /\ \E arg \in BranchArgs : \E ref \in CurrentBranches :
          IF arg = ""
          THEN /\ branch' = IF getCurrentBranch(ref) = "" THEN "main"
                            ELSE getCurrentBranch(ref)
               /\ execLog' = Append(execLog, "git symbolic-ref --short HEAD")
          ELSE /\ branch' = arg
               /\ UNCHANGED execLog
    /\ pushing' = "committing"
    /\ pc' = "check"
    /\ UNCHANGED cascadeVars
    /\ UNCHANGED <<changedFiles, finalCommitMessage, outcome, porcelain, stagedFiles,
                   changes, message, drafting, branchStatus, pushAnswer>>

\* commit() lines 281-295: the first checkSensitiveFiles, the status read
\* again, and `git add .`
CheckAndStage ==
    /\ pc = "check"
    /\ \E status \in {"ok", "throws"} :
          IF status = "throws"
          THEN /\ execLog' = Append(execLog, "git status --porcelain")
               /\ pc' = "done"
               /\ outcome' = "exit 1"
               /\ UNCHANGED <<stagedFiles, changedFiles, porcelain>>
          ELSE LET files         == StatusFiles(StatusText(porcelain))
                   initialStatus == Trim(StatusText(porcelain))
               IN /\ stagedFiles' = Append(stagedFiles, files)
                  /\ IF SelectSeq(files, IsSensitive) # <<>>
                     THEN /\ execLog' = Append(execLog, "git status --porcelain")
                          /\ pc' = "done"
                          /\ outcome' = "exit 1"
                          /\ UNCHANGED <<changedFiles, porcelain>>
                     ELSE IF initialStatus = <<>>
                     THEN /\ execLog' = execLog \o <<"git status --porcelain",
                                                     "git status --porcelain">>
                          /\ pc' = "done"
                          /\ outcome' = "nothing to commit"
                          /\ UNCHANGED <<changedFiles, porcelain>>
                     ELSE /\ execLog' = execLog \o <<"git status --porcelain",
                                                     "git status --porcelain",
                                                     "git add .">>
                          /\ changedFiles' = SliceEach(Split(initialStatus, "\n"))
                          /\ porcelain' = AddAll(porcelain)
                          /\ pc' = "recheck"
                          /\ UNCHANGED outcome
    /\ UNCHANGED cascadeVars
    /\ UNCHANGED <<finalCommitMessage, changes, message, drafting, branch,
                   branchStatus, pushAnswer, pushing>>

\* commit() lines 298-305: the second checkSensitiveFiles and getGitStatus
Recheck ==
    /\ pc = "recheck"
    /\ LET files == StatusFiles(StatusText(porcelain))
           staged == getGitStatus(StatusText(porcelain))
       IN /\ stagedFiles' = Append(stagedFiles, files)
          /\ IF SelectSeq(files, IsSensitive) # <<>>
             THEN /\ execLog' = Append(execLog, "git status --porcelain")
                  /\ pc' = "done"
                  /\ outcome' = "exit 1"
                  /\ UNCHANGED changes
             ELSE /\ execLog' = execLog \o <<"git status --porcelain",
                                             "git status --porcelain">>
                  /\ changes' = staged
                  /\ IF Len(staged) = 0
                     THEN pc' = "done" /\ outcome' = "nothing to commit"
                     ELSE pc' = "detect" /\ UNCHANGED outcome
    /\ UNCHANGED cascadeVars
    /\ UNCHANGED <<changedFiles, finalCommitMessage, porcelain, message, drafting,
                   branch, branchStatus, pushAnswer, pushing>>

\* what the `# branch.ab` line of `git status -b --porcelain=v2` says, "none"
\* without an upstream; or git throws
BranchReports == {"+0 -0", "+1 -0", "+1 -2", "none", "throws"}

\* push() lines 483-496: commit() returned its message, the branch is read
ReadBranch ==
    /\ pc = "done"
    /\ pushing = "committing"
    /\ outcome = "committed"
    /\ finalCommitMessage # <<>>
    /\ \E report \in BranchReports :
          /\ branchStatus' = report
          /\ pushing' = IF report = "+0 -0" THEN "up to date" ELSE "confirming"
    /\ execLog' = Append(execLog, "git status -b --porcelain=v2")
    /\ UNCHANGED cascadeVars
    /\ UNCHANGED <<pc, changedFiles, finalCommitMessage, outcome, porcelain,
                   stagedFiles, changes, message, drafting, branch, pushAnswer>>

\* what the user types at "Proceed with commit and push? (Y/n)"
PushAnswers == {<<>>, <<"y">>, <<"n">>, <<"N">>, <<"n", "o">>}

\* as confirmPush, the answer compared as typed
confirmPushAsTyped(a) == a # <<"n">>

\* confirmPush (part_001 line 149)
confirmPush(a) == ToLowerCase(a) # <<"n">>

\* push() lines 498-504 and confirmPush
Confirm ==
    /\ pushing = "confirming"
    /\ \E a \in PushAnswers :
          /\ pushAnswer' = <<a>>
          /\ pushing' = IF confirmPush(a) THEN "pushing" ELSE "cancelled"
    /\ execLog' = Append(execLog, "git diff --cached --stat")
    /\ UNCHANGED cascadeVars
    /\ UNCHANGED <<pc, changedFiles, finalCommitMessage, outcome, porcelain,
                   stagedFiles, changes, message, drafting, branch, branchStatus>>

\* `git push origin ${branch}`
PushCommand(b) ==
    CASE b = "dev"  -> "git push origin dev"
      [] b = "work" -> "git push origin work"
      [] b = "main" -> "git push origin main"

\* push() lines 506-524
GitPush ==
    /\ pushing = "pushing"
    /\ execLog' = Append(execLog, PushCommand(branch))
    /\ \E r \in {"pushed", "exit 1"} : pushing' = r
    /\ UNCHANGED cascadeVars
    /\ UNCHANGED <<pc, changedFiles, finalCommitMessage, outcome, porcelain,
                   stagedFiles, changes, message, drafting, branch, branchStatus,
                   pushAnswer>>

\* the status of the working tree when push() is run
SampleStatuses == {
    <<>>,
    <<<<" ","M"," ","a",".","j","s">>>>,
    <<<<"?","?"," ",".","e","n","v">>>>,
    <<<<"?","?"," ",".","e","n","v",".","e","x","a","m","p","l","e">>>>,
    <<<<"?","?"," ","c","o","n","f","/">>>>,
    <<<<" ","M"," ","c","r","l","f",".","t","x","t">>>>,
    <<<<"M"," "," ","a",".","j","s">>,
      <<" ","M"," ","p","a","c","k","a","g","e",".","j","s","o","n">>>>,
    <<<<"A"," "," ",".","e","n","v",".","e","x","a","m","p","l","e",".","b",
        "a","k">>,
      <<" ","M"," ","a",".","j","s">>>>,
    <<<<"M"," "," ","a",".","j","s">>,
      <<"?","?"," ","i","d","_","r","s","a">>>> }

InitPush ==
    /\ pc = "push"
    /\ changedFiles = <<>>
    /\ lockfiles = [pnpm |-> FALSE, yarn |-> FALSE]
    /\ packageManager = "npm"
    /\ probes = <<>>
    /\ execLog = <<>>
    /\ fsLog = <<>>
    /\ warnLog = <<>>
    /\ lsOutput = NotRun
    /\ checkOutput = NotRun
    /\ fileReads = <<>>
    /\ dupeOutput = NotRun
    /\ conflictInfo = Pending
    /\ escaped = FALSE
    /\ nodeModules = "unknown"
    /\ llmAnalysis = "none"
    /\ answer = <<>>
    /\ finalCommitMessage = <<>>
    /\ outcome = "running"
    /\ invocation = 1
    /\ first = NotRecording
    /\ advisory = NoAdvisory
    /\ analysis = SampleAnalysis
    /\ porcelain \in SampleStatuses
    /\ stagedFiles = <<>>
    /\ changes = <<>>
    /\ message \in {<<>>, <<"f","i","x",":"," ","x">>}
    /\ drafting = NoDraft
    /\ branch = "none"
    /\ branchStatus = "unread"
    /\ pushAnswer = <<>>
    /\ pushing = "idle"

NextPush ==
    \/ PushStart
    \/ CheckAndStage
    \/ Recheck
    \/ Next
    \/ ReadBranch
    \/ Confirm
    \/ GitPush

SpecPush == InitPush /\ [][NextPush]_vars

-----------------------------------------------------------------------------
(* Properties *)

IsRecord(c) == c.type \notin {"pending", "null"}

CascadeStates == {"TreeCheck", "DryRunCheck", "ManifestCheck", "DedupCheck"}

ProbeOrder == <<"TreeCheck", "DryRunCheck", "ManifestCheck", "DedupCheck">>

IsPrefix(s, t) == Len(s) <= Len(t) /\ s = SubSeq(t, 1, Len(s))

\* the commands of commit() itself, as opposed to those of the cascade
IsCascadeCommand(c) ==
    c \notin {"npm audit --json 2>/dev/null || true", "git commit"}

ManifestLikeNames == {PackageJson, PackageLockJson, YarnLock, PnpmLockYaml}

NoManifestLikePath(files) ==
    \A i \in DOMAIN files : \A n \in ManifestLikeNames : ~EndsWith(files[i], n)

\* C1: when no path of the ChangeSet ends with package.json,
\* package-lock.json, yarn.lock or pnpm-lock.yaml, detectDependencyConflicts
\* returns null having entered no probe, run no subprocess and touched no
\* file.
C1_NoProbeWithoutManifest ==
    (pc = "returned" /\ NoManifestLikePath(changedFiles)) =>
        /\ conflictInfo = Null
        /\ ~escaped
        /\ probes = <<>>
        /\ execLog = <<>>
        /\ fsLog = <<>>

C1_Witness ==
    /\ pc = "returned"
    /\ changedFiles = <<PackageJsonBak>>
    /\ conflictInfo = Null

\* C2: the probes are entered in the order TreeCheck, DryRunCheck,
\* ManifestCheck, DedupCheck, each at most once and each only while no
\* earlier probe has produced a record; once a record is produced no probe
\* is entered and no subprocess of the cascade is run any more.
C2_ProbeOrder ==
    /\ [](/\ IsPrefix(probes, ProbeOrder)
          /\ pc \in CascadeStates =>
                /\ conflictInfo = Pending
                /\ Len(probes) < Len(ProbeOrder)
                /\ ProbeOrder[Len(probes) + 1] = pc)
    /\ [][IsRecord(conflictInfo) =>
            /\ probes' = probes
            /\ SelectSeq(execLog', IsCascadeCommand) = SelectSeq(execLog, IsCascadeCommand)
            /\ conflictInfo' = conflictInfo]_vars

C2_Witness ==
    /\ pc = "returned"
    /\ probes = ProbeOrder
    /\ conflictInfo.type = "duplicate_packages"

\* C3: after the cascade returned a record, git commit is run only if the
\* user answered y or Y at the prompt; any other answer, the empty one
\* included, ends commit() as cancelled with no git commit, whatever the
\* advisory step returned.
C3_CommitNeedsConfirmation ==
    /\ (IsRecord(conflictInfo) /\ "git commit" \in Range(execLog)) =>
          answer \in {<<<<"y">>>>, <<<<"Y">>>>}
    /\ (answer # <<>> /\ answer[1] \notin {<<"y">>, <<"Y">>}) =>
          /\ pc = "done"
          /\ outcome = "cancelled"
          /\ "git commit" \notin Range(execLog)

C3_Witness ==
    /\ IsRecord(conflictInfo)
    /\ outcome = "committed"
    /\ answer = <<<<"Y">>>>

ConflictKinds == {"npm_dependency_conflict", "invalid_dependencies",
                  "peer_dependency_conflict", "dependency_warning",
                  "version_conflict", "duplicate_packages"}

\* C4: whatever the subprocesses, file reads and parses do,
\* detectDependencyConflicts ends by returning null or one ConflictRecord
\* and never throws to commit(): no probe gets stuck, and no exception
\* escapes.
C4_NeverThrows ==
    /\ ~escaped
    /\ pc \in CascadeStates \cup {"detect"} => conflictInfo = Pending /\ ENABLED Next
    /\ pc \notin CascadeStates \cup {"detect"} =>
          \/ conflictInfo = Null
          \/ /\ conflictInfo.type \in ConflictKinds
             /\ Len(conflictInfo.problems) > 0

C4_Witness ==
    /\ pc = "returned"
    /\ lsOutput = ExecThrew
    /\ conflictInfo = Null

\* C5: when the subprocess of TreeCheck, DryRunCheck or DedupCheck throws,
\* the failure is caught and logged and the cascade goes on with the next
\* probe in order (after DedupCheck: returns null).
C5_ThrowingProbeContinues ==
    /\ lsOutput.threw =>
          pc = "DryRunCheck" /\ warnLog # <<>> /\ ~escaped
    /\ checkOutput.threw =>
          pc = "ManifestCheck" /\ warnLog # <<>> /\ ~escaped
    /\ dupeOutput.threw =>
          pc = "returned" /\ conflictInfo = Null /\ warnLog # <<>> /\ ~escaped

\* C6: when the list command's output is not JSON, TreeCheck yields no
\* record, nothing is thrown, and DryRunCheck is entered next.
C6_UnparseableListOutput ==
    (lsOutput # NotRun /\ ~lsOutput.threw /\ lsOutput.out.json = <<>>) =>
        /\ pc = "DryRunCheck"
        /\ conflictInfo = Pending
        /\ ~escaped
        /\ probes = <<"TreeCheck">>

C6_Witness ==
    /\ pc = "DryRunCheck"
    /\ lsOutput = ExecOk(NotJsonText(<<<<"n","p","m"," ","E","R","R","!">>>>))

ListCommandOf ==
    [npm  |-> "npm ls --json 2>/dev/null || true",
     pnpm |-> "pnpm ls --json 2>/dev/null || true",
     yarn |-> "yarn list --json 2>/dev/null || true"]

DryRunCommandOf ==
    [npm  |-> "npm install --dry-run --json 2>/dev/null || true",
     pnpm |-> "pnpm install --dry-run --json 2>/dev/null || true",
     yarn |-> "yarn install --dry-run --json 2>/dev/null || true"]

\* C7: the manager is pnpm whenever pnpm-lock.yaml exists, yarn when only
\* yarn.lock exists and npm otherwise, and the list and dry-run commands run
\* are those of that manager.
C7_ManagerSelection ==
    (pc # "detect" /\ ~NoManifestLikePath(changedFiles)) =>
        /\ packageManager \in {"npm", "pnpm", "yarn"}
        /\ lockfiles.pnpm => packageManager = "pnpm"
        /\ (~lockfiles.pnpm /\ lockfiles.yarn) => packageManager = "yarn"
        /\ (~lockfiles.pnpm /\ ~lockfiles.yarn) => packageManager = "npm"
        /\ Len(probes) >= 1 => execLog[1] = ListCommandOf[packageManager]
        /\ Len(probes) >= 2 => execLog[2] = DryRunCommandOf[packageManager]

C7_Witness ==
    /\ lockfiles.pnpm
    /\ lockfiles.yarn
    /\ packageManager = "pnpm"
    /\ Len(probes) >= 2

\* a specifier with its leading range operators removed
RECURSIVE NormalizedVersion(_)
NormalizedVersion(v) ==
    IF v # <<>> /\ Head(v) \in {"^", "~", ">", "=", "<"}
    THEN NormalizedVersion(Tail(v))
    ELSE v

SectionNames == <<Dependencies, DevDependencies, PeerDependencies,
                  OptionalDependencies>>

SectionsOf(m) == <<m.dependencies, m.devDependencies, m.peerDependencies,
                   m.optionalDependencies>>

Mentions(sec, p) == sec # <<>> /\ \E i \in DOMAIN sec[1] : sec[1][i][1] = p

SpecifierIn(sec, p) == sec[1][CHOOSE i \in DOMAIN sec[1] : sec[1][i][1] = p][2]

\* the manifest the probe has read, and the problems reported for a package
ManifestRead == fileReads[Len(fileReads)][2].text.json[1]

ProblemsFor(p) ==
    {i \in DOMAIN conflictInfo.problems :
        StartsWith(conflictInfo.problems[i], p \o HasMultipleVersions)}

Names(problem, k, m, p) ==
    Includes(problem, SectionNames[k] \o <<":", " ">>
                      \o NormalizedVersion(SpecifierIn(SectionsOf(m)[k], p)))

\* C8: for every manifest and every two sections that give a package
\* different normalized versions, the probe reports exactly one problem for
\* the package, and it names both sections with their normalized versions.
C8_EveryDivergingPairReported ==
    fileReads # <<>> =>
        \A p \in Packages : \A a, b \in 1..4 :
            (/\ a < b
             /\ Mentions(SectionsOf(ManifestRead)[a], p)
             /\ Mentions(SectionsOf(ManifestRead)[b], p)
             /\ NormalizedVersion(SpecifierIn(SectionsOf(ManifestRead)[a], p))
                # NormalizedVersion(SpecifierIn(SectionsOf(ManifestRead)[b], p)))
            => /\ conflictInfo.type = "version_conflict"
               /\ Cardinality(ProblemsFor(p)) = 1
               /\ \A i \in ProblemsFor(p) :
                     /\ Names(conflictInfo.problems[i], a, ManifestRead, p)
                     /\ Names(conflictInfo.problems[i], b, ManifestRead, p)

Agreed(m, p) ==
    \A a, b \in 1..4 :
        (Mentions(SectionsOf(m)[a], p) /\ Mentions(SectionsOf(m)[b], p)) =>
            NormalizedVersion(SpecifierIn(SectionsOf(m)[a], p))
            = NormalizedVersion(SpecifierIn(SectionsOf(m)[b], p))

\* C9: a package that gets the same normalized version from every section
\* mentioning it is in no problem of the record; when that is so for every
\* package the probe emits no record.
C9_AgreeingVersionsNotReported ==
    fileReads # <<>> =>
        /\ \A p \in Packages : Agreed(ManifestRead, p) => ProblemsFor(p) = {}
        /\ (\A p \in Packages : Agreed(ManifestRead, p)) =>
              pc = "DedupCheck" /\ conflictInfo = Pending

C9_Witness ==
    /\ fileReads = <<<<PackageJson, ReadOk(ManifestText(ConsistentManifest))>>>>
    /\ pc = "DedupCheck"

LeftPadText ==
    <<"{","\"","d","e","p","e","n","d","e","n","c","i","e","s","\"",":","{",
      "\"","l","e","f","t","-","p","a","d","\"",":","\"","^","1",".","0",".",
      "0","\"","}",",","\"","d","e","v","D","e","p","e","n","d","e","n","c",
      "i","e","s","\"",":","{","\"","l","e","f","t","-","p","a","d","\"",":",
      "\"","^","2",".","0",".","0","\"","}","}">>

\* C10: when TreeCheck and DryRunCheck found nothing and the probe reads a
\* changed package.json holding the left-pad manifest, the cascade returns
\* a version_conflict record with exactly the one left-pad problem, and
\* DedupCheck is not run.
C10_LeftPadScenario ==
    \A i \in DOMAIN fileReads :
        (~fileReads[i][2].threw /\ fileReads[i][2].text.lines = <<LeftPadText>>) =>
            /\ pc = "returned"
            /\ conflictInfo.type = "version_conflict"
            /\ conflictInfo.problems = <<
                <<"l","e","f","t","-","p","a","d"," ","h","a","s"," ","m","u",
                  "l","t","i","p","l","e"," ","v","e","r","s","i","o","n","s",
                  ":"," ","d","e","p","e","n","d","e","n","c","i","e","s",":",
                  " ","1",".","0",".","0",","," ","d","e","v","D","e","p","e",
                  "n","d","e","n","c","i","e","s",":"," ","2",".","0",".",
                  "0">> >>
            /\ probes = <<"TreeCheck", "DryRunCheck", "ManifestCheck">>
            /\ nodeModules = "unknown"

C10_Witness ==
    /\ pc = "returned"
    /\ Len(fileReads) = 2
    /\ fileReads[2][2].text.lines = <<LeftPadText>>
    /\ conflictInfo.type = "version_conflict"

\* the tree the list command printed, once TreeCheck has parsed it
TreeParsed ==
    /\ probes = <<"TreeCheck">>
    /\ ~lsOutput.threw
    /\ lsOutput.out.json # <<>>
    /\ lsOutput.out.json[1].t = "object"

lsData == lsOutput.out.json[1]

\* the nodes of a tree: the root and every node under a dependencies map
RECURSIVE NodesOf(_)
NodesOf(node) ==
    {node} \cup UNION {NodesOf(node.dependencies[i][2]) : i \in DOMAIN node.dependencies}

InvalidNodes(node) == {n \in NodesOf(node) : n.invalid}

\* C11: when the parsed list output has top-level problems, the record is
\* an npm_dependency_conflict with exactly those problems in their order,
\* and nothing of the recursive walk, whatever nodes are marked invalid.
C11_TopLevelProblemsFirst ==
    (TreeParsed /\ Len(lsData.problems) > 0) =>
        /\ pc = "returned"
        /\ conflictInfo.type = "npm_dependency_conflict"
        /\ conflictInfo.problems = lsData.problems
        /\ \A n \in InvalidNodes(lsData) :
              (n.name \o <<"@">> \o n.version) \notin Range(conflictInfo.problems)

C11_Witness ==
    /\ TreeParsed
    /\ Len(lsData.problems) = 2
    /\ InvalidNodes(lsData) # {}
    /\ conflictInfo.type = "npm_dependency_conflict"

\* depth-first pre-order: a node's own token, then its problems, then its
\* children one after the other in key order
RECURSIVE PreOrder(_)
RECURSIVE PreOrderChildren(_)
PreOrder(node) ==
    (IF node.invalid THEN <<node.name \o <<"@">> \o node.version>> ELSE <<>>)
    \o node.problems
    \o PreOrderChildren(node.dependencies)
PreOrderChildren(children) ==
    IF children = <<>> THEN <<>>
    ELSE PreOrder(Head(children)[2]) \o PreOrderChildren(Tail(children))

\* C12: without top-level problems, every node marked invalid at any depth
\* makes the record an invalid_dependencies one that holds the node's
\* name@version, the entries being in depth-first pre-order.
C12_InvalidNodesAtAnyDepth ==
    (TreeParsed /\ Len(lsData.problems) = 0 /\ InvalidNodes(lsData) # {}) =>
        /\ pc = "returned"
        /\ conflictInfo.type = "invalid_dependencies"
        /\ \A n \in InvalidNodes(lsData) :
              (n.name \o <<"@">> \o n.version) \in Range(conflictInfo.problems)
        /\ conflictInfo.problems = PreOrder(lsData)

\* a node marked invalid three levels deep
C12_Witness ==
    /\ TreeParsed
    /\ Len(lsData.problems) = 0
    /\ \E i \in DOMAIN lsData.dependencies :
          \E j \in DOMAIN lsData.dependencies[i][2].dependencies :
             lsData.dependencies[i][2].dependencies[j][2].invalid
    /\ conflictInfo.type = "invalid_dependencies"

\* the dry run's stdout, once DryRunCheck has parsed it as JSON and walked
\* its warnings
DryRunParsed ==
    /\ probes = <<"TreeCheck", "DryRunCheck">>
    /\ ~checkOutput.threw
    /\ ~JsonBranchThrows(checkOutput.out)

checkData == checkOutput.out.json[1]

\* the text of a warning: the string itself, or its .message
TextsOf(w) ==
    IF w.t = "string" THEN {w.s}
    ELSE IF w.message # <<>> THEN {w.message[1]}
    ELSE {}

\* ERESOLVE as code, or "peer dep missing" or "conflict" in the text,
\* whatever the case of the letters
MatchesIgnoringCase(w) ==
    \/ (w.t = "object" /\ w.code = <<ERESOLVE>>)
    \/ \E text \in TextsOf(w) :
          \/ Includes(ToLowerCase(text), PeerDepMissing)
          \/ Includes(ToLowerCase(text), Conflict)

\* C13: of the warnings of a parsed dry run, each one with code ERESOLVE or
\* with "peer dep missing" or "conflict" in its text, compared
\* case-insensitively, is in the peer_dependency_conflict record.
C13_WarningsMatchedIgnoringCase ==
    DryRunParsed =>
        \A i \in DOMAIN checkData.warnings :
            MatchesIgnoringCase(checkData.warnings[i]) =>
                /\ pc = "returned"
                /\ conflictInfo.type = "peer_dependency_conflict"
                /\ WarningText(checkData.warnings[i]) \in Range(conflictInfo.problems)

\* the dry run's stdout, once DryRunCheck has failed to parse it as JSON
DryRunUnparsed ==
    /\ probes = <<"TreeCheck", "DryRunCheck">>
    /\ ~checkOutput.threw
    /\ checkOutput.out.json = <<>>

\* a line holding one of the six words, whatever the case of the letters
IsErrorLine(line) ==
    \E k \in DOMAIN ErrorWords : \E i \in DOMAIN line : WordAt(line, i, ErrorWords[k])

\* C14: when the dry run's stdout is not JSON, the problems of the
\* dependency_warning record are exactly the stdout lines holding one of
\* the six words, in file order, none left out.
C14_EveryMatchingLineReported ==
    (DryRunUnparsed /\ SelectSeq(checkOutput.out.lines, IsErrorLine) # <<>>) =>
        /\ pc = "returned"
        /\ conflictInfo.type = "dependency_warning"
        /\ conflictInfo.problems = SelectSeq(checkOutput.out.lines, IsErrorLine)

\* the dedupe dry run has printed a text holding one of the trigger words
DedupTriggered ==
    /\ probes = ProbeOrder
    /\ nodeModules = "present"
    /\ ~dupeOutput.threw
    /\ \/ Includes(Join(dupeOutput.out.lines, <<"\n">>), Duplicate)
       \/ Includes(Join(dupeOutput.out.lines, <<"\n">>), Deduped)

\* the name@x.y.z tokens of the text, in output order
DupeTokens == DupeMatches(Join(dupeOutput.out.lines, <<"\n">>), 1)

\* C15: when the dedupe output holds "duplicate" or "deduped", the probe
\* emits a duplicate_packages record: with every matched token in output
\* order when there are tokens, with the one fallback message when there
\* are none.
C15_DuplicatesOrFallback ==
    DedupTriggered =>
        /\ pc = "returned"
        /\ conflictInfo.type = "duplicate_packages"
        /\ DupeTokens # <<>> => conflictInfo.problems = DupeTokens
        /\ DupeTokens = <<>> => conflictInfo.problems = <<DedupeFallback>>

\* the first path of the ChangeSet that ends with a manifest or lockfile name
FirstManifestLike(files) ==
    files[CHOOSE i \in DOMAIN files :
            /\ \E n \in ManifestLikeNames : EndsWith(files[i], n)
            /\ \A j \in 1..(i - 1) :
                  \A n \in ManifestLikeNames : ~EndsWith(files[j], n)]

\* C16: the file of a returned record is 'node_modules' for a
\* duplicate_packages record, and for every other kind the first
\* manifest-like path of the ChangeSet.
C16_RecordFile ==
    IsRecord(conflictInfo) =>
        IF conflictInfo.type = "duplicate_packages"
        THEN conflictInfo.file = NodeModules
        ELSE conflictInfo.file = FirstManifestLike(changedFiles)

Numerals == <<"1","2","3","4","5","6","7","8","9">>

\* the lines the prompt is to hold for a list of problems: all of them up to
\* five, else the first five and the line "...and N more similar issues"
ExpectedLines(problems) ==
    IF Len(problems) > 5
    THEN [i \in 1..6 |->
            IF i <= 5 THEN problems[i]
            ELSE AndMore \o <<Numerals[Len(problems) - 5]>> \o MoreSimilarIssues]
    ELSE problems

\* C18: with an API key, the prompt of a list of n problems holds the first
\* five problems verbatim and then the one line "...and N more similar
\* issues" with N = n - 5 when n > 5, and all n problems and no other line
\* when n <= 5.
C18_PromptSample ==
    (pc = "prompt" /\ advisory.apiKey) =>
        /\ Len(advisory.requests) = 1
        /\ advisory.requests[1].conflictMessages
              = Join(ExpectedLines(conflictInfo.problems), <<"\n">>)

C18_Witness ==
    /\ pc = "prompt"
    /\ advisory.apiKey
    /\ Len(conflictInfo.problems) = 7
    /\ Len(advisory.requests) = 1

\* the advice of the static table for the record, with the package manager
\* found on disk
TableAdvice ==
    StaticAdvice(conflictInfo.type, SelectManager(lockfiles.pnpm, lockfiles.yarn))

\* C19: without an API key the advisory step returns null and calls no
\* network, and commit() has printed the static advice of the record's
\* kind when it asks for confirmation.
C19_NoKeyNoCall ==
    /\ ~advisory.apiKey => advisory.requests = <<>>
    /\ (pc = "prompt" /\ ~advisory.apiKey) =>
          /\ llmAnalysis = "null"
          /\ advisory.call = "none"
          /\ advisory.advice = TableAdvice
          /\ advisory.advice # AiAdvice

C19_Witness ==
    /\ pc = "prompt"
    /\ ~advisory.apiKey
    /\ conflictInfo.type = "duplicate_packages"
    /\ advisory.advice = StaticAdvice("duplicate_packages", "yarn")

\* C20: when the call of the language model fails (network error, status
\* not ok, body not JSON, handler throwing) the advisory step returns null
\* and throws nothing: commit() has printed the static advice and goes on
\* to ask for confirmation.
C20_AdvisoryFailureNotFatal ==
    advisory.call \in LlmFailures =>
        /\ pc = "prompt"
        /\ llmAnalysis = "null"
        /\ outcome = "running"
        /\ advisory.advice = TableAdvice
        /\ ENABLED Prompt

C20_Witness ==
    /\ pc = "prompt"
    /\ advisory.call = "handler throws"
    /\ llmAnalysis = "null"
    /\ IsRecord(conflictInfo)


-----------------------------------------------------------------------------
(* The sections of the language model's response *)

\* the lines of a text; the line being read began at from
RECURSIVE LinesFrom(_, _, _)
LinesFrom(s, from, i) ==
    IF i > Len(s) THEN <<SubSeq(s, from, Len(s))>>
    ELSE IF s[i] = "\n"
    THEN <<SubSeq(s, from, i - 1)>> \o LinesFrom(s, i + 1, i + 1)
    ELSE LinesFrom(s, from, i + 1)

LinesOf(s) == LinesFrom(s, 1, 1)

\* a line that opens a numbered list item: digits and a dot at its start
IsItemLine(l) ==
    LET d == RunEnd(l, 1, Digits) IN d >= 1 /\ d + 1 <= Len(l) /\ l[d + 1] = "."

\* what an item line says after its number
ItemText(l) == SubSeq(l, RunEnd(l, 1, Digits) + 2, Len(l))

\* the first item line at or after line i, Len(L) + 1 when there is none
NextItem(L, i) ==
    IF \E j \in i..Len(L) : IsItemLine(L[j])
    THEN CHOOSE j \in i..Len(L) :
            IsItemLine(L[j]) /\ \A k \in i..(j - 1) : ~IsItemLine(L[k])
    ELSE Len(L) + 1

\* the numbered items from item line i on, each up to the next item line,
\* trimmed, the empty ones left out
RECURSIVE ItemsFrom(_, _)
ItemsFrom(L, i) ==
    IF i > Len(L) THEN <<>>
    ELSE LET j == NextItem(L, i + 1)
             t == Trim(Join(<<ItemText(L[i])>> \o SubSeq(L, i + 1, j - 1), <<"\n">>))
         IN (IF t = <<>> THEN <<>> ELSE <<t>>) \o ItemsFrom(L, j)

\* the explanation and the steps of a response text: what precedes the
\* first numbered item, and the numbered items
NumberedSections(text) ==
    LET L == LinesOf(text)
        k == NextItem(L, 1)
    IN [explanation |-> Trim(Join(SubSeq(L, 1, k - 1), <<"\n">>)),
        strategy    |-> ItemsFrom(L, k)]

\* C21: for every response text the explanation is the text before the
\* first numbered list item ("<digits>." at the start of a line, the first
\* line included) and the steps are the numbered items in order, each
\* trimmed, the empty ones discarded.
C21_SectionsFollowNumberedItems ==
    (pc = "prompt" /\ advisory.analysis # <<>>) =>
        advisory.analysis[1] = NumberedSections(analysis)


-----------------------------------------------------------------------------
(* Normalized versions *)

\* problem i says "<section k>: <the normalized version of p's specifier
\* in section k>" as one of its items
HasItem(problem, k, m, p) ==
    Includes(problem \o <<",", " ">>,
             <<" ">> \o SectionNames[k] \o <<":", " ">>
             \o NormalizedVersion(SpecifierIn(SectionsOf(m)[k], p)) \o <<",", " ">>)

\* problem i has an item for section k
HasSection(problem, k) == Includes(problem, <<" ">> \o SectionNames[k] \o <<":", " ">>)

\* C23: the normalized version of a specifier is the specifier without its
\* leading run of range-operator characters, what follows the first other
\* character left as it is: every item of a reported problem gives that
\* text for its section.
C23_OnlyLeadingOperatorsStripped ==
    (fileReads # <<>> /\ conflictInfo.type = "version_conflict") =>
        \A p \in Packages : \A i \in ProblemsFor(p) : \A k \in 1..4 :
            HasSection(conflictInfo.problems[i], k) =>
                HasItem(conflictInfo.problems[i], k, ManifestRead, p)


-----------------------------------------------------------------------------
(* The items and the order of the reported problems *)

\* where part first starts in s, 0 when s does not include it
FirstIndexOf(s, part) ==
    IF Includes(s, part)
    THEN CHOOSE i \in 1..Len(s) :
            /\ SubSeq(s, i, i + Len(part) - 1) = part
            /\ \A j \in 1..(i - 1) : SubSeq(s, j, j + Len(part) - 1) # part
    ELSE 0

SectionTag(k) == <<" ">> \o SectionNames[k] \o <<":", " ">>

\* where a package first appears in a manifest: its section, then its place
\* in that section
FirstSection(m, p) == CHOOSE k \in 1..4 :
    Mentions(SectionsOf(m)[k], p) /\ \A j \in 1..(k - 1) : ~Mentions(SectionsOf(m)[j], p)

PlaceIn(sec, p) == CHOOSE i \in DOMAIN sec[1] : sec[1][i][1] = p

AppearsBefore(m, p, q) ==
    \/ FirstSection(m, p) < FirstSection(m, q)
    \/ /\ FirstSection(m, p) = FirstSection(m, q)
       /\ PlaceIn(SectionsOf(m)[FirstSection(m, p)], p)
          < PlaceIn(SectionsOf(m)[FirstSection(m, p)], q)

\* C24: the problem of a reported package has one item for every section
\* of the manifest in which the package appears, in section order, a
\* section whose normalized version equals an earlier one included; and the
\* problems come in the order in which the packages first appear.
C24_EverySectionListed ==
    (fileReads # <<>> /\ conflictInfo.type = "version_conflict") =>
        /\ \A p \in Packages : \A i \in ProblemsFor(p) :
              /\ \A k \in 1..4 :
                    Mentions(SectionsOf(ManifestRead)[k], p)
                    <=> HasSection(conflictInfo.problems[i], k)
              /\ \A a, b \in 1..4 :
                    (/\ a < b
                     /\ HasSection(conflictInfo.problems[i], a)
                     /\ HasSection(conflictInfo.problems[i], b))
                    => FirstIndexOf(conflictInfo.problems[i], SectionTag(a))
                       < FirstIndexOf(conflictInfo.problems[i], SectionTag(b))
        /\ \A p, q \in Packages : \A i \in ProblemsFor(p) : \A j \in ProblemsFor(q) :
              i < j => AppearsBefore(ManifestRead, p, q)


-----------------------------------------------------------------------------
(* The command of DedupCheck *)

\* the deduplication dry run of each manager
DedupeCommandOf ==
    [npm  |-> "npm dedupe --dry-run 2>&1 || true",
     pnpm |-> "pnpm dedupe --dry-run 2>&1 || true",
     yarn |-> "yarn dedupe --dry-run 2>&1 || true"]

IsDedupeCommand(c) == \E pm \in DOMAIN DedupeCommandOf : c = DedupeCommandOf[pm]

\* C25: a deduplication dry run is run only when node_modules exists, and
\* when DedupCheck finds node_modules it runs the dry run of the manager the
\* selector chose, whichever of npm, pnpm and yarn that is.
C25_DedupeOfChosenManager ==
    /\ \A i \in DOMAIN execLog :
          IsDedupeCommand(execLog[i]) => nodeModules = "present"
    /\ ("DedupCheck" \in Range(probes) /\ nodeModules = "present") =>
          \E i \in DOMAIN execLog : execLog[i] = DedupeCommandOf[packageManager]


-----------------------------------------------------------------------------
(* The records of the cascade *)

KindsOf ==
    [TreeCheck     |-> {"npm_dependency_conflict", "invalid_dependencies"},
     DryRunCheck   |-> {"peer_dependency_conflict", "dependency_warning"},
     ManifestCheck |-> {"version_conflict"},
     DedupCheck    |-> {"duplicate_packages"}]

\* C28: every record the cascade returns has at least one problem, and its
\* kind is one of the kinds of the probe that produced it, the last probe
\* entered.
C28_KindByProbe ==
    IsRecord(conflictInfo) =>
        /\ Len(conflictInfo.problems) > 0
        /\ probes # <<>>
        /\ conflictInfo.type \in KindsOf[probes[Len(probes)]]

C28_Witness ==
    /\ pc = "returned"
    /\ conflictInfo.type = "dependency_warning"
    /\ probes = <<"TreeCheck", "DryRunCheck">>
    /\ Len(conflictInfo.problems) = 1


-----------------------------------------------------------------------------
(* dependency_warning and valid JSON *)

\* the dry run printed valid JSON, and DryRunCheck has looked at it
DryRunPrintedJson ==
    /\ probes = <<"TreeCheck", "DryRunCheck">>
    /\ ~checkOutput.threw
    /\ checkOutput.out.json # <<>>

\* C29: a dependency_warning record comes only from a stdout that is not
\* valid JSON; on valid JSON of any shape DryRunCheck returns a
\* peer_dependency_conflict record or no record.
C29_WarningOnlyWithoutJson ==
    /\ (probes = <<"TreeCheck", "DryRunCheck">>
        /\ conflictInfo.type = "dependency_warning") => checkOutput.out.json = <<>>
    /\ DryRunPrintedJson =>
          \/ conflictInfo.type = "peer_dependency_conflict"
          \/ (conflictInfo = Pending /\ pc = "ManifestCheck")


-----------------------------------------------------------------------------
(* The message generateAICommitMessage returns *)

\* the first line of a text: what stands before its first line feed
FirstLine(text) ==
    IF "\n" \in Range(text)
    THEN SubSeq(text, 1, (CHOOSE i \in DOMAIN text :
                             text[i] = "\n" /\ \A j \in 1..(i - 1) : text[j] # "\n") - 1)
    ELSE text

\* a type, or a type and a scope of lower-case letters and hyphens in
\* parentheses
IsTypeAndScope(pre) ==
    \E type \in CommitTypes :
        \/ pre = type
        \/ /\ StartsWith(pre, type)
           /\ Len(pre) >= Len(type) + 3
           /\ pre[Len(type) + 1] = "("
           /\ pre[Len(pre)] = ")"
           /\ \A i \in (Len(type) + 2)..(Len(pre) - 1) : pre[i] \in ScopeChars

\* ^(feat|fix|docs|style|refactor|perf|test|chore)(\([a-z-]+\))?: .+
IsConventional(line) ==
    \E k \in DOMAIN line :
        /\ line[k] = ":"
        /\ IsTypeAndScope(SubSeq(line, 1, k - 1))
        /\ k + 2 <= Len(line)
        /\ line[k + 1] = " "
        /\ line[k + 2] \notin LineTerminators

\* commit() has asked generateAICommitMessage for its message
Generated == pc \in {"commit", "done"} /\ message = <<>>

\* the provider's text came back whole and fit
ProviderTextFits ==
    /\ drafting.apiKey
    /\ drafting.diff # "throws"
    /\ drafting.call = "ok"
    /\ IsConventional(FirstLine(drafting.response))
    /\ Len(FirstLine(drafting.response)) <= 80

\* C27: the message generateAICommitMessage returns is the provider's text,
\* its first line in the conventional format and at most 80 characters
\* long, or else the message of generateSimpleCommitMessage; without an API
\* key, after a failed call or diff, on a first line in another format or
\* too long it is the latter, and the generator never throws.
C27_ProviderTextOrSimple ==
    Generated =>
        /\ IF ProviderTextFits
           THEN drafting.commitMessage = drafting.response
           ELSE drafting.commitMessage = generateSimpleCommitMessage(changes)
        /\ outcome = "exit 1" => "git commit" \in Range(execLog)

C27_Witness ==
    /\ Generated
    /\ pc = "commit"
    /\ drafting.commitMessage = drafting.response
    /\ Len(FirstLine(drafting.response)) = 80

-----------------------------------------------------------------------------
(* The standard message and the validation of commit() *)

-----------------------------------------------------------------------------
(* The sensitive-file checks of commit() *)

HasSensitivePattern(file) ==
    \E pattern \in sensitivePatterns :
        \E i \in DOMAIN file : i + Len(pattern) - 1 <= Len(file)
                               /\ \A k \in DOMAIN pattern : file[i + k - 1] = pattern[k]

EndsWithException(file) ==
    \E exception \in exceptions : \E head \in {SubSeq(file, 1, n) : n \in 0..Len(file)} :
        file = head \o exception

\* the checks so far at which a changed file had a sensitive pattern and no
\* exception name at its end
ChecksWithSensitiveFile ==
    {i \in DOMAIN stagedFiles :
        \E k \in DOMAIN stagedFiles[i] :
            /\ HasSensitivePattern(stagedFiles[i][k])
            /\ ~EndsWithException(stagedFiles[i][k])}

\* C22: when a changed file at the check before staging or at the check
\* after `git add .` has a sensitive pattern in its name and no exception
\* name at its end, the run ends there with exit code 1: conflict detection
\* is not entered and `git commit` is not executed.
C22_SensitiveFileStopsRun ==
    \A i \in ChecksWithSensitiveFile :
        /\ i = Len(stagedFiles)
        /\ pc = "done"
        /\ outcome = "exit 1"
        /\ "git commit" \notin Range(execLog)
        /\ probes = <<>>
        /\ fsLog = <<>>
        /\ conflictInfo = Pending
        /\ pushing = "committing"

\* the file came to light at the second check, after `git add .`
C22_Witness ==
    /\ ChecksWithSensitiveFile = {2}
    /\ "git add ." \in Range(execLog)
    /\ outcome = "exit 1"

-----------------------------------------------------------------------------
(* The push after the commit *)

PushCommands == {PushCommand(b) : b \in {"dev", "work", "main"}}

\* the place of the first command of the set in the log, 0 without one
FirstRun(commands) ==
    IF \E i \in DOMAIN execLog : execLog[i] \in commands
    THEN CHOOSE i \in DOMAIN execLog :
             execLog[i] \in commands /\ \A j \in 1..(i - 1) : execLog[j] \notin commands
    ELSE 0

=============================================================================
